---- MODULE Spec2Model ----
(***************************************************************************)
(* A model of the DASH PGAS core: dash::accumulate (Accumulate.h),         *)
(* dash::GlobAsyncRef and dash::Future<GlobRef<T>> (GlobAsyncRef.h), the   *)
(* views and initialize_matrix of NViewTest.cc (with view/Local.h),        *)
(* dash::SharedCounter (SharedCounter.h), dash::util::PatternMetrics       *)
(* (util/PatternMetrics.h), the pattern's coordinate mapping and the       *)
(* distarray program (spec/test/distarray.c).                              *)
(*                                                                         *)
(* Every subsystem has its own specification (SpecAcc, SpecAsync, ...).    *)
(* A specification leaves the variables of the other subsystems at their   *)
(* idle values.                                                            *)
(***************************************************************************)
EXTENDS Integers, Sequences, FiniteSets, TLC

(* ------------------------------------------------------------------ *)
(* Bounds                                                              *)
(* ------------------------------------------------------------------ *)

\* number of units of the team
NUnits == 2
\* largest number of elements of the accumulated range
MaxLen == 4

Units == 0 .. (NUnits - 1)

\* the accumulated container of n elements, initialised to 1 .. n
Sequence1toN(n) == [i \in 1 .. n |-> i]
\* values of the init argument
InitValues == {0, 2}

\* largest number of operations the units issue on global memory, and on
\* futures
MaxSteps == 4

\* values a caller's buffer holds
SrcValues == {1, 2}

(* ------------------------------------------------------------------ *)
(* State                                                               *)
(* ------------------------------------------------------------------ *)

VARIABLES
  \* accumulate: the arguments of the collective call
  arr,        \* the elements of the range, in canonical order
  owner,      \* owner[i]: the unit whose local range holds arr[i]
  call,       \* [form, op, init, ne_arg, prim]: the call every unit makes
  \* accumulate: per-unit progress
  pc,         \* "start" | "reducing" | "done"
  pool,       \* the all-reduce: contribution of each unit, NoPayload if none
  g_result,   \* g_result[u]: local_result_t received from the all-reduce
  result,     \* result[u]: the value accumulate returned on unit u
  logged,     \* logged[u]: DASH_LOG_ERROR("Found invalid reduction value!")
  \* global memory and transport
  mem,        \* mem[t]: the array element in the local memory of unit t
  inflight,   \* the puts issued and not yet applied at their target
  src,        \* src[u]: the caller's buffer unit u assigns from
  \* GlobAsyncRef: what each unit has done and seen
  ast,        \* ast[u]: the latest GlobAsyncRef assignment of unit u
  rd,         \* the latest read of a unit through a GlobRef
  steps,      \* number of operations the units have issued
  \* Future<GlobRef<T>>
  fut,        \* fut[u]: the future of unit u
  \* GlobAsyncRef::member
  gar,        \* the reference the latest member() call returned
  chain,      \* [unit, root, offsets]: the calls that led to gar
  \* views
  vmat,       \* [nunits, nrows, ncols, dist]: the matrix the views are of
  view,       \* the view the latest view operation returned
  vops,       \* the view operations applied to the matrix, in order
  \* initialize_matrix
  matrix,     \* [nunits, nrows, ncols, dist]: the matrix being initialised
  elems,      \* elems[<<i, k>>]: the element (i, k) in its owner's memory
  puts,       \* the puts of unit 0 not yet applied at their target
  ipc,        \* ipc[u]: "write" | "barrier1" | "update" | "barrier2" | "done"
  idx,        \* idx[u]: the loop index of unit u in its current loop
  seen,       \* the latest element read by a unit after initialize_matrix
  \* SharedCounter
  local_counts, \* _local_counts[i]: the slot of the array owned by unit i
  cpc,        \* cpc[u]: "ctor" | "run" | "store" | "barrier" | "after"
  tmp,        \* tmp[u]: the value unit u is about to store to its slot
  calls,      \* calls[u]: number of inc() and dec() calls of unit u
  net,        \* net[u]: increments minus decrements unit u has made
  counted,    \* the latest result of get()
  \* PatternMetrics
  pattern,    \* [nunits, nrows, ncols, dist]: the pattern measured
  metrics,    \* the members of the PatternMetrics object
  \* the pattern's coordinate mapping
  pat,        \* [extents, dists, team]: a two-dimensional pattern
  mapped,     \* the latest coordinate mapped to (unit, local offset)
  \* the distarray program
  darray,     \* darray[u][i + 1]: element i of the portion of unit u
  dpc,        \* dpc[u]: [at, i]: the position of unit u in main()
  dval        \* the latest element the printing unit has fetched

accVars == <<arr, owner, call, pc, pool, g_result, result, logged>>

memVars == <<mem, inflight, src, ast, rd, steps>>

futVars == <<fut>>

refVars == <<gar, chain>>

viewVars == <<vmat, view, vops>>

initVars == <<matrix, elems, puts, ipc, idx, seen>>

cntVars == <<local_counts, cpc, tmp, calls, net, counted>>

pmVars == <<pattern, metrics>>

patVars == <<pat, mapped>>

daVars == <<darray, dpc, dval>>

\* the variables of the subsystems other than accumulate, global memory
\* and futures
extVars == <<refVars, viewVars, initVars, cntVars, pmVars, patVars, daVars>>

vars == <<arr, owner, call, pc, pool, g_result, result, logged,
          mem, inflight, src, ast, rd, steps, fut, gar, chain,
          vmat, view, vops, matrix, elems, puts, ipc, idx, seen,
          local_counts, cpc, tmp, calls, net, counted, pattern, metrics,
          pat, mapped, darray, dpc, dval>>

(* ------------------------------------------------------------------ *)
(* Idle values of the subsystems a specification does not run          *)
(* ------------------------------------------------------------------ *)

NoAssign == [state |-> "none"]

NoRead == [state |-> "none"]

NoFuture == [state |-> "none"]

IdleAcc ==
  /\ arr = <<>> /\ owner = <<>>
  /\ call = [form |-> "none"]
  /\ pc = [u \in Units |-> "idle"]
  /\ pool = <<>> /\ g_result = <<>> /\ result = <<>> /\ logged = <<>>

IdleMem ==
  /\ mem = <<>> /\ inflight = {} /\ src = <<>>
  /\ ast = <<>> /\ rd = NoRead /\ steps = 0

IdleFut == fut = <<>>

IdleRef == gar = <<>> /\ chain = <<>>

IdleView == vmat = <<>> /\ view = <<>> /\ vops = <<>>

IdleInit ==
  /\ matrix = <<>> /\ elems = <<>> /\ puts = {}
  /\ ipc = <<>> /\ idx = <<>> /\ seen = NoRead

IdleCnt ==
  /\ local_counts = <<>> /\ cpc = <<>> /\ tmp = <<>>
  /\ calls = <<>> /\ net = <<>> /\ counted = NoRead

IdlePm == pattern = <<>> /\ metrics = <<>>

IdlePat == pat = <<>> /\ mapped = <<>>

IdleDa == darray = <<>> /\ dpc = <<>> /\ dval = <<>>

IdleExt ==
  IdleRef /\ IdleView /\ IdleInit /\ IdleCnt /\ IdlePm /\ IdlePat /\ IdleDa

\* what a specification of one subsystem leaves unchanged, and idle
frameMember ==
  <<accVars, memVars, futVars, viewVars, initVars, cntVars, pmVars,
    patVars, daVars>>

IdleButMember ==
  IdleAcc /\ IdleMem /\ IdleFut /\ IdleView /\ IdleInit /\ IdleCnt /\ IdlePm
  /\ IdlePat /\ IdleDa

frameView ==
  <<accVars, memVars, futVars, refVars, initVars, cntVars, pmVars,
    patVars, daVars>>

IdleButView ==
  IdleAcc /\ IdleMem /\ IdleFut /\ IdleRef /\ IdleInit /\ IdleCnt /\ IdlePm
  /\ IdlePat /\ IdleDa

frameInit ==
  <<accVars, memVars, futVars, refVars, viewVars, cntVars, pmVars,
    patVars, daVars>>

IdleButInit ==
  IdleAcc /\ IdleMem /\ IdleFut /\ IdleRef /\ IdleView /\ IdleCnt /\ IdlePm
  /\ IdlePat /\ IdleDa

frameCounter ==
  <<accVars, memVars, futVars, refVars, viewVars, initVars, pmVars,
    patVars, daVars>>

IdleButCounter ==
  IdleAcc /\ IdleMem /\ IdleFut /\ IdleRef /\ IdleView /\ IdleInit /\ IdlePm
  /\ IdlePat /\ IdleDa

framePattern ==
  <<accVars, memVars, futVars, refVars, viewVars, initVars, cntVars,
    pmVars, daVars>>

IdleButPattern ==
  IdleAcc /\ IdleMem /\ IdleFut /\ IdleRef /\ IdleView /\ IdleInit /\ IdleCnt
  /\ IdlePm /\ IdleDa

frameDistarray ==
  <<accVars, memVars, futVars, refVars, viewVars, initVars, cntVars,
    pmVars, patVars>>

IdleButDistarray ==
  IdleAcc /\ IdleMem /\ IdleFut /\ IdleRef /\ IdleView /\ IdleInit /\ IdleCnt
  /\ IdlePm /\ IdlePat

frameMetrics ==
  <<accVars, memVars, futVars, refVars, viewVars, initVars, cntVars,
    patVars, daVars>>

IdleButMetrics ==
  IdleAcc /\ IdleMem /\ IdleFut /\ IdleRef /\ IdleView /\ IdleInit /\ IdleCnt
  /\ IdlePat /\ IdleDa

(* ------------------------------------------------------------------ *)
(* dash::accumulate                                                    *)
(* ------------------------------------------------------------------ *)

\* ValueType{}: the value-initialised value of local_result::value
DefaultValue == 0

\* struct local_result { ValueType value{}; bool valid = false; }
local_result == [value |-> DefaultValue, valid |-> FALSE]

NoPayload == [none |-> TRUE]

\* the binary operations a caller passes: the predefined functors
\* dash::plus, dash::multiplies, dash::min, dash::max, and "user", a
\* caller's own functor (a, b) -> a + b + 1, which is associative and
\* commutative, has no identity and is not a predefined reduction.
BinaryOps == {"plus", "multiplies", "min", "max", "user"}

binary_op(op, a, b) ==
  CASE op = "plus"       -> a + b
    [] op = "multiplies" -> a * b
    [] op = "min"        -> IF b < a THEN b ELSE a
    [] op = "max"        -> IF a < b THEN b ELSE a
    [] op = "user"       -> a + b + 1

\* dash::internal::dart_reduce_operation<BinaryOperation>::value
dart_reduce_operation(op) ==
  IF op \in {"plus", "multiplies", "min", "max"} THEN op
  ELSE "DART_OP_UNDEFINED"

\* dash::dart_storage<ValueType>::dtype
dart_storage_dtype(prim) ==
  IF prim THEN "DART_TYPE_INT" ELSE "DART_TYPE_UNDEFINED"

\* std::accumulate(first, last, acc, op): left fold of op over s from acc
RECURSIVE std_accumulate(_, _, _)
std_accumulate(s, acc, op) ==
  IF s = <<>> THEN acc
  ELSE std_accumulate(Tail(s), binary_op(op, acc, Head(s)), op)

\* the indices of arr that unit u owns, ascending
RECURSIVE OwnedFrom(_, _)
OwnedFrom(u, i) ==
  IF i > Len(arr) THEN <<>>
  ELSE IF owner[i] = u THEN <<arr[i]>> \o OwnedFrom(u, i + 1)
  ELSE OwnedFrom(u, i + 1)

\* [in_first, in_last) on unit u: its local elements in local order
local_range(u) == OwnedFrom(u, 1)

\* lines 92-99: the unit's partial result
LocalFold(s, op) ==
  IF s # <<>>
  THEN [value |-> std_accumulate(Tail(s), Head(s), op), valid |-> TRUE]
  ELSE local_result

\* accumulate_custom_fn without the validity checks: the functor is applied
\* to every pair of payloads
accumulate_custom_fn_unchecked(in, inout, op) ==
  [value |-> binary_op(op, in.value, inout.value),
   valid |-> in.valid \/ inout.valid]

\* accumulate_custom_fn(invec, inoutvec, len, userdata): the new *inoutvec
accumulate_custom_fn(in, inout, op) ==
  IF in.valid
  THEN IF inout.valid
       THEN [value |-> binary_op(op, in.value, inout.value), valid |-> TRUE]
       ELSE [value |-> in.value, valid |-> TRUE]
  ELSE inout

\* the global-range form claiming that no unit is empty
units_non_empty_claimed == TRUE

\* line 217 of the global-range form
units_non_empty == FALSE

\* the default of the parameter non_empty of accumulate(.., binary_op, ..)
non_empty_default_binop == TRUE

\* the default of the parameter non_empty of accumulate(.., init, ..)
non_empty_default_plus == FALSE

\* the value of non_empty the local-range form runs with
non_empty(c) ==
  CASE c.form = "global"       -> units_non_empty
    [] c.form = "local_binop"  ->
         IF c.ne_arg = "omitted" THEN non_empty_default_binop
         ELSE c.ne_arg = "true"
    [] c.form = "local_plus"   ->
         IF c.ne_arg = "omitted" THEN non_empty_default_plus
         ELSE c.ne_arg = "true"

\* line 104 without the test of non_empty
UseCustom_ignoring_non_empty(c) ==
  \/ dart_reduce_operation(c.op) = "DART_OP_UNDEFINED"
  \/ dart_storage_dtype(c.prim) = "DART_TYPE_UNDEFINED"

\* line 104: whether the custom (value, valid) all-reduce is used
UseCustom(c) ==
  \/ ~non_empty(c)
  \/ dart_reduce_operation(c.op) = "DART_OP_UNDEFINED"
  \/ dart_storage_dtype(c.prim) = "DART_TYPE_UNDEFINED"

\* the calls a program can make
Calls ==
  { c \in [form   : {"global", "local_binop", "local_plus"},
           op     : BinaryOps,
           init   : InitValues,
           ne_arg : {"omitted", "true", "false"},
           prim   : BOOLEAN] :
      /\ c.form = "global"     => c.ne_arg = "omitted"
      /\ c.form = "local_plus" => c.op = "plus" }

InitAcc ==
  /\ \E n \in 0 .. MaxLen :
       /\ arr = Sequence1toN(n)
       /\ owner \in [1 .. n -> Units]
  /\ call \in Calls
  /\ pc = [u \in Units |-> "start"]
  /\ pool = [u \in Units |-> NoPayload]
  /\ g_result = [u \in Units |-> local_result]
  /\ result = [u \in Units |-> DefaultValue]
  /\ logged = [u \in Units |-> FALSE]
  /\ IdleMem /\ IdleFut /\ IdleExt

\* Enter with the reduction chosen by the unit's own local range: the
\* custom one also if the unit has no elements
Enter_variant_by_local_range(u) ==
  /\ pc[u] = "start"
  /\ LET l_result == LocalFold(local_range(u), call.op)
     IN  pool' = [pool EXCEPT ![u] =
                    [value  |-> l_result.value,
                     valid  |-> l_result.valid,
                     custom |-> UseCustom(call) \/ local_range(u) = <<>>]]
  /\ pc' = [pc EXCEPT ![u] = "reducing"]
  /\ UNCHANGED <<arr, owner, call, g_result, result, logged>>

\* lines 87-118, up to the point where the unit blocks in dart_allreduce:
\* the local fold, the choice of the reduction, the unit's contribution
Enter(u) ==
  /\ pc[u] = "start"
  /\ LET l_result == LocalFold(local_range(u), call.op)
     IN  pool' = [pool EXCEPT ![u] =
                    [value  |-> l_result.value,
                     valid  |-> l_result.valid,
                     custom |-> UseCustom(call)]]
  /\ pc' = [pc EXCEPT ![u] = "reducing"]
  /\ UNCHANGED <<arr, owner, call, g_result, result, logged>>

Present == { u \in Units : pool[u] # NoPayload }

\* dart_allreduce: the transport folds one contribution into another, in
\* any order, once every unit of the team has entered the collective
ReduceOp(in, inout, op) ==
  IF inout.custom
  THEN LET r == accumulate_custom_fn(
                  [value |-> in.value, valid |-> in.valid],
                  [value |-> inout.value, valid |-> inout.valid], op)
       IN  [value |-> r.value, valid |-> r.valid, custom |-> TRUE]
  ELSE [inout EXCEPT !.value = binary_op(op, in.value, inout.value)]

Combine(i, j) ==
  /\ \A u \in Units : pc[u] = "reducing"
  /\ i \in Present /\ j \in Present /\ i # j
  /\ pool' = [pool EXCEPT ![j] = ReduceOp(pool[i], pool[j], call.op),
                          ![i] = NoPayload]
  /\ UNCHANGED <<arr, owner, call, pc, g_result, result, logged>>

\* lines 113-128, from the return of dart_allreduce to the return
Leave(u) ==
  /\ pc[u] = "reducing"
  /\ \A v \in Units : pc[v] # "start"
  /\ Cardinality(Present) = 1
  /\ LET recv == pool[CHOOSE v \in Present : TRUE]
         g == IF recv.custom
              THEN [value |-> recv.value, valid |-> recv.valid]
              ELSE [value |-> recv.value, valid |-> TRUE]
     IN  /\ g_result' = [g_result EXCEPT ![u] = g]
         /\ logged' = [logged EXCEPT ![u] = ~g.valid]
         /\ result' = [result EXCEPT ![u] = binary_op(call.op, call.init, g.value)]
  /\ pc' = [pc EXCEPT ![u] = "done"]
  /\ UNCHANGED <<arr, owner, call, pool>>

NextAcc ==
  \/ \E u \in Units : Enter(u) /\ UNCHANGED <<memVars, futVars, extVars>>
  \/ \E i, j \in Units : Combine(i, j) /\ UNCHANGED <<memVars, futVars, extVars>>
  \/ \E u \in Units : Leave(u) /\ UNCHANGED <<memVars, futVars, extVars>>

SpecAcc == InitAcc /\ [][NextAcc]_vars

\* every unit keeps running and the transport completes the collectives
\* it was given: a step that can be taken is taken in the end. The ranges
\* are one element shorter than in SpecAcc.
InitAccFair == InitAcc /\ Len(arr) < MaxLen

SpecAccFair == InitAccFair /\ [][NextAcc]_vars /\ WF_vars(NextAcc)

(* ------------------------------------------------------------------ *)
(* Properties of dash::accumulate                                      *)
(* ------------------------------------------------------------------ *)

\* the fold of the operation over the whole range in canonical order
FoldAll == std_accumulate(Tail(arr), Head(arr), call.op)

EmptyUnits == { u \in Units : local_range(u) = <<>> }

AllDone == \A u \in Units : pc[u] = "done"

Recognized == call.op \in {"plus", "multiplies", "min", "max"}

\* C1: the global-range accumulate over a non-empty range returns
\* binary_op(init, fold of binary_op over all elements) on every unit, for
\* every distribution of the elements, also when some units own none; for
\* the elements 1 .. N with + it returns init + N(N+1)/2.
C1_GlobalRangeResult ==
  \A u \in Units :
    (call.form = "global" /\ pc[u] = "done" /\ arr # <<>>)
      => /\ result[u] = binary_op(call.op, call.init, FoldAll)
         /\ call.op = "plus" =>
              2 * (result[u] - call.init) = Len(arr) * (Len(arr) + 1)

\* C1 witness: a global-range call has returned everywhere, one unit owned
\* nothing and another owned at least two elements.
C1_Witness ==
  /\ call.form = "global" /\ AllDone
  /\ EmptyUnits # {}
  /\ \E u \in Units : Len(local_range(u)) >= 2

\* C2 (as claimed): when every unit's local range is empty, accumulate
\* returns init unchanged and logs the diagnostic, on every unit.
C2_AllEmptyReturnsInit ==
  \A u \in Units :
    (pc[u] = "done" /\ EmptyUnits = Units)
      => (result[u] = call.init /\ logged[u])

\* C3 (as claimed): with non_empty = true and a recognized reduction, a
\* call in which some unit's local range is empty returns init unchanged
\* (stated for a primitive value type, and for the calls in which not
\* every unit is empty: those are C2's).
C3_HintViolatedReturnsInit ==
  \A u \in Units :
    (/\ pc[u] = "done"
     /\ call.form # "global" /\ call.ne_arg = "true"
     /\ Recognized /\ call.prim
     /\ EmptyUnits # {} /\ EmptyUnits # Units)
      => result[u] = call.init

\* the partial results of the units of S with a non-empty local range, by
\* ascending unit
RECURSIVE ValidPartials(_)
ValidPartials(S) ==
  IF S = {} THEN <<>>
  ELSE LET u == CHOOSE x \in S : \A y \in S : x <= y
       IN  (IF local_range(u) = <<>> THEN <<>>
            ELSE <<LocalFold(local_range(u), call.op).value>>)
           \o ValidPartials(S \ {u})

\* the all-reduce is complete: one combined payload is left
Reduced ==
  /\ \A u \in Units : pc[u] # "start"
  /\ Cardinality(Present) = 1

Combined == pool[CHOOSE v \in Present : TRUE]

\* C4, the combined payload: valid iff some unit had a non-empty local
\* range, and then its value is the fold of the valid units' values.
C4_CombinedPayload ==
  (Reduced /\ Combined.custom) =>
    /\ Combined.valid <=> (EmptyUnits # Units)
    /\ Combined.valid =>
         LET p == ValidPartials(Units)
         IN  Combined.value = std_accumulate(Tail(p), Head(p), call.op)

\* C4, one combination step of the custom all-reduce
C4_CombineStep ==
  \A i, j \in Units :
    (Combine(i, j) /\ pool[j].custom) =>
      LET in == pool[i]
          inout == pool[j]
          out == pool'[j]
      IN  /\ (in.valid /\ inout.valid) =>
               (out.valid /\ out.value = binary_op(call.op, inout.value, in.value))
          /\ (in.valid /\ ~inout.valid) =>
               (out.valid /\ out.value = in.value)
          /\ (~in.valid /\ inout.valid) =>
               (out.valid /\ out.value = inout.value)
          /\ (~in.valid /\ ~inout.valid) => ~out.valid

\* C4: in the custom all-reduce the functor is applied only to two valid
\* payloads, a single valid payload wins, two invalid ones stay invalid;
\* so in any combination order the result is valid iff some unit had
\* elements and is the fold of exactly the valid units' values.
C4_CustomReduce == [][C4_CombineStep]_vars /\ []C4_CombinedPayload

\* C4 witness: a custom all-reduce is complete to which an empty unit
\* and a non-empty unit contributed, and the combined payload is valid.
C4_Witness ==
  /\ Reduced /\ Combined.custom
  /\ EmptyUnits # {} /\ EmptyUnits # Units
  /\ Combined.valid

\* C5 (as claimed): the native all-reduce is used whenever the operation
\* is a recognized reduction and the value type is a transport primitive,
\* and the custom one otherwise, whatever non_empty and the form are.
C5_NativeWheneverRecognized ==
  \A u \in Units :
    pool[u] # NoPayload =>
      (pool[u].custom <=> ~(Recognized /\ call.prim))

\* C5 (amended): the global-range form and every call with
\* non_empty = false use the custom all-reduce; a call with
\* non_empty = true uses the native one iff the operation is recognized
\* and the value type is a transport primitive.
C5_NativeOnlyWhenNonEmpty ==
  \A u \in Units :
    pool[u] # NoPayload =>
      /\ call.form = "global" => pool[u].custom
      /\ (call.form # "global" /\ call.ne_arg = "false") => pool[u].custom
      /\ (call.form # "global" /\ call.ne_arg = "true") =>
           (pool[u].custom <=> ~(Recognized /\ call.prim))

\* C5 witness: a recognized reduction on a primitive type has entered the
\* custom all-reduce in the global-range form.
C5_Witness ==
  /\ call.form = "global" /\ Recognized /\ call.prim
  /\ \E u \in Units : pool[u] # NoPayload /\ pool[u].custom

\* C6 (as claimed): a local-range call that omits non_empty runs with
\* non_empty = false in both overloads, so it tolerates empty units: it
\* takes the custom all-reduce and returns binary_op(init, fold).
C6_OmittedNonEmptyIsFalse ==
  \A u \in Units :
    (call.form # "global" /\ call.ne_arg = "omitted") =>
      /\ pool[u] # NoPayload => pool[u].custom
      /\ (pc[u] = "done" /\ arr # <<>>) =>
           result[u] = binary_op(call.op, call.init, FoldAll)

\* what accumulate returns when a single unit holds the whole range
SingleUnitResult ==
  binary_op(call.op, call.init,
            IF arr = <<>> THEN DefaultValue ELSE FoldAll)

\* C24, the local fold: the partial result a unit contributes is the left
\* fold of the operation over its local elements seeded with the first of
\* them, and it is valid iff the local range is not empty
C24_EnterStep ==
  \A u \in Units :
    Enter(u) =>
      LET s == local_range(u)
      IN  /\ pool'[u].valid <=> (s # <<>>)
          /\ s # <<>> =>
               pool'[u].value = std_accumulate(Tail(s), Head(s), call.op)

\* C24, the result: init is combined once with the value the all-reduce
\* delivered, and the result is the one a single unit would return
C24_Result ==
  \A u \in Units :
    (pc[u] = "done" /\ call.form # "global") =>
      /\ result[u] = binary_op(call.op, call.init, g_result[u].value)
      /\ result[u] = SingleUnitResult

\* C24: in the local-range accumulate a unit's partial result is the left
\* fold of binop over its local elements seeded with the first of them,
\* valid iff the local range is non-empty; init is combined exactly once,
\* after the all-reduce, as binop(init, combined); so the result does not
\* depend on how many units take part.
C24_LocalRangeFold == [][C24_EnterStep]_vars /\ []C24_Result

\* C25, one step: a unit's contribution to the all-reduce appears when the
\* unit leaves the start of the call and only then, whether or not its
\* local range is empty, so a unit issues exactly one all-reduce per call
C25_OneAllReduce ==
  \A u \in Units :
    /\ (pc[u] = "start" /\ pc'[u] # "start") =>
         (pool[u] = NoPayload /\ pool'[u] # NoPayload /\ pc'[u] = "reducing")
    /\ (pc[u] # "start" /\ pool[u] = NoPayload) => pool'[u] = NoPayload
    /\ pc[u] = "done" => pc'[u] = "done"

\* C25, the variant: the contributions in the all-reduce are all native or
\* all custom, as line 104 decides from the arguments
C25_SameVariant ==
  \A u \in Present : pool[u].custom = UseCustom(call)

\* C25, the value: the units that have returned have returned one value
C25_SameValue ==
  \A u, v \in Units :
    (pc[u] = "done" /\ pc[v] = "done") => result[u] = result[v]

\* C25: within one accumulate call every unit issues exactly one
\* all-reduce, whether or not its local range is empty, and all units
\* choose the same variant; so when every unit calls accumulate with the
\* same arguments, every unit eventually returns and all units return the
\* same value.
C25_AllReturn ==
  /\ [][C25_OneAllReduce]_vars
  /\ []C25_SameVariant
  /\ []C25_SameValue
  /\ <>AllDone

\* C25 witness: a local-range call has returned on every unit, one unit
\* had an empty local range and another had elements
C25_Witness ==
  /\ AllDone
  /\ call.form = "local_binop"
  /\ EmptyUnits # {} /\ EmptyUnits # Units
  /\ \A u \in Units : g_result[u].valid

(* ------------------------------------------------------------------ *)
(* Global memory, the one-sided transport, dash::GlobAsyncRef          *)
(*                                                                     *)
(* The array has one element per unit: element t lives in the local    *)
(* memory of unit t, at mem[t].                                        *)
(* ------------------------------------------------------------------ *)

\* the values the elements hold before the units run
InitialValues == {0}

NullPtr == [null |-> TRUE]

\* the global pointer to the element of unit t
GlobPtr(t) == [unitid |-> t, addr |-> 0]

\* GlobAsyncRef(gptr) as constructed on unit u for the element of unit t
GlobAsyncRef(u, t) ==
  [gptr     |-> GlobPtr(t),
   lptr     |-> IF t = u THEN [unitid |-> u, addr |-> 0] ELSE NullPtr,
   is_local |-> (t = u)]

\* dart_put, of which the transport reads the source buffer when it
\* applies the put at the target
dart_put(u, gptr) ==
  [from |-> u, target |-> gptr.unitid, val |-> src[u], byref |-> TRUE]

\* dart_put_blocking_local(gptr, &new_value, ..): returns when the source
\* buffer can be reused, so the transport holds the value of the call
dart_put_blocking_local(u, gptr) ==
  [from |-> u, target |-> gptr.unitid, val |-> src[u], byref |-> FALSE]

\* the value a put writes when the transport applies it at the target
WriteValue(p) == IF p.byref THEN src[p.from] ELSE p.val

\* the puts in flight to the element of unit t
PutsTo(t) == { p \in inflight : p.target = t }

\* the effect of GlobAsyncRef::operator= with every reference taken as
\* local: the store goes to the element at once
AssignEffect_always_local(u, ref) ==
  /\ mem' = [mem EXCEPT ![ref.gptr.unitid] = src[u]]
  /\ inflight' = inflight

\* the effect of GlobAsyncRef::operator= with every reference taken as
\* remote: the value always goes through the transport
AssignEffect_always_put(u, ref) ==
  /\ inflight' = inflight \cup {dart_put_blocking_local(u, ref.gptr)}
  /\ mem' = mem

\* operator= issuing the put that does not wait for local completion
PutCall_nonblocking(u, gptr) == dart_put(u, gptr)

\* lines 271-276: the transport call operator= makes for a remote element
PutCall(u, gptr) == dart_put_blocking_local(u, gptr)

\* lines 268-277 of GlobAsyncRef::operator=(new_value), new_value being
\* the caller's buffer src[u]
AssignEffect(u, ref) ==
  IF ref.is_local
  THEN /\ mem' = [mem EXCEPT ![ref.lptr.unitid] = src[u]]
       /\ inflight' = inflight
  ELSE /\ inflight' = inflight \cup {PutCall(u, ref.gptr)}
       /\ mem' = mem

\* what unit u remembers of its assignment to the element of unit t;
\* old: the value the element held at the call;
\* clean: no other write to that element was in flight at the call
Assigned(u, t) ==
  [state |-> "assigned", target |-> t, val |-> src[u], old |-> mem[t],
   clean |-> (PutsTo(t) = {})]

\* another write to the element of unit t: the assignments other units
\* remember for it are no longer the only write
Disturb(a, t) ==
  IF a.state # "none" /\ a.target = t THEN [a EXCEPT !.clean = FALSE] ELSE a

\* GlobAsyncRef::operator= / set / put on unit u, through its reference to
\* the element of unit t
Assign(u, t) ==
  /\ steps < MaxSteps
  /\ steps' = steps + 1
  /\ AssignEffect(u, GlobAsyncRef(u, t))
  /\ ast' = [w \in Units |->
               IF w = u THEN Assigned(u, t) ELSE Disturb(ast[w], t)]
  /\ UNCHANGED <<src, rd>>

\* the caller reuses its source buffer
WriteSrc(u, v) ==
  /\ steps < MaxSteps
  /\ steps' = steps + 1
  /\ v # src[u]
  /\ src' = [src EXCEPT ![u] = v]
  /\ UNCHANGED <<mem, inflight, ast, rd>>

\* the transport applies one put at its target, at a time of its choosing
Deliver(p) ==
  /\ p \in inflight
  /\ mem' = [mem EXCEPT ![p.target] = WriteValue(p)]
  /\ inflight' = inflight \ {p}
  /\ UNCHANGED <<src, ast, rd, steps>>

\* dart_flush(gptr): every put of the calling unit to the target unit of
\* gptr is applied, in an order the transport chooses
dart_flush(u, gptr) ==
  LET mine == { p \in inflight : p.from = u /\ p.target = gptr.unitid }
  IN  /\ inflight' = inflight \ mine
      /\ IF mine = {} THEN mem' = mem
         ELSE \E last \in mine :
                mem' = [mem EXCEPT ![gptr.unitid] = WriteValue(last)]

\* GlobAsyncRef::flush without the transport call
FlushEffect_skipped(u, ref) ==
  /\ inflight' = inflight
  /\ mem' = mem

\* flush() calling the transport for remote elements only
FlushCalls_remote_only(ref) ==
  IF ref.gptr # NullPtr /\ ~ref.is_local THEN {ref.gptr} ELSE {}

\* lines 295-300: the global pointers flush() calls dart_flush with
FlushCalls(ref) == IF ref.gptr # NullPtr THEN {ref.gptr} ELSE {}

\* lines 293-302 of GlobAsyncRef::flush
FlushEffect(u, ref) ==
  IF FlushCalls(ref) # {}
  THEN \E gptr \in FlushCalls(ref) : dart_flush(u, gptr)
  ELSE /\ inflight' = inflight
       /\ mem' = mem

\* GlobAsyncRef(DART_GPTR_NULL), lines 130-139: a reference whose global
\* pointer is null; local is what is_local() of a null pointer yields
GlobAsyncRef_null(local) ==
  [gptr |-> NullPtr, lptr |-> NullPtr, is_local |-> local]

\* GlobAsyncRef::flush on unit u, on its reference to the element of unit t
Flush(u, t) ==
  /\ steps < MaxSteps
  /\ steps' = steps + 1
  /\ FlushEffect(u, GlobAsyncRef(u, t))
  /\ ast' = [ast EXCEPT ![u] =
               IF @.state = "assigned" /\ @.target = t
               THEN [@ EXCEPT !.state = "flushed"] ELSE @]
  /\ UNCHANGED <<src, rd>>

\* GlobAsyncRef::flush on unit u, on a reference with a null global pointer
FlushNull(u) ==
  /\ steps < MaxSteps
  /\ steps' = steps + 1
  /\ \E local \in BOOLEAN : FlushEffect(u, GlobAsyncRef_null(local))
  /\ UNCHANGED <<src, ast, rd>>

\* the assignments to the element of unit t that were flushed and are the
\* only write to it since
Flushed(t) ==
  { w \in Units : /\ ast[w].state = "flushed"
                  /\ ast[w].target = t
                  /\ ast[w].clean }

\* a read of the element of unit t by unit u through a GlobRef: a load if
\* local, a blocking get otherwise; the unit notes what was in flight and
\* what had been flushed when it read
Read(u, t) ==
  /\ steps < MaxSteps
  /\ steps' = steps + 1
  /\ rd' = [state   |-> "read", reader |-> u, target |-> t, val |-> mem[t],
            pending |-> { [from |-> p.from, val |-> p.val] : p \in PutsTo(t) },
            flushed |-> { ast[w].val : w \in Flushed(t) }]
  /\ UNCHANGED <<mem, inflight, src, ast>>

InitAsync ==
  /\ mem \in [Units -> InitialValues]
  /\ inflight = {}
  /\ src = [u \in Units |-> 1 + (u % 2)]
  /\ ast = [u \in Units |-> NoAssign]
  /\ rd = NoRead
  /\ steps = 0
  /\ IdleAcc /\ IdleFut /\ IdleExt

NextAsync ==
  \/ \E u, t \in Units : Assign(u, t) /\ UNCHANGED <<accVars, futVars, extVars>>
  \/ \E u \in Units, v \in SrcValues :
       WriteSrc(u, v) /\ UNCHANGED <<accVars, futVars, extVars>>
  \/ \E p \in inflight : Deliver(p) /\ UNCHANGED <<accVars, futVars, extVars>>
  \/ \E u, t \in Units : Flush(u, t) /\ UNCHANGED <<accVars, futVars, extVars>>
  \/ \E u \in Units : FlushNull(u) /\ UNCHANGED <<accVars, futVars, extVars>>
  \/ \E u, t \in Units : Read(u, t) /\ UNCHANGED <<accVars, futVars, extVars>>

SpecAsync == InitAsync /\ [][NextAsync]_vars

(* ------------------------------------------------------------------ *)
(* Properties of dash::GlobAsyncRef                                    *)
(* ------------------------------------------------------------------ *)

\* C7: once a unit has assigned v through a GlobAsyncRef and flushed the
\* reference, the element holds v and every read of it, by any unit,
\* returns v, as long as no other write to the element is in flight at
\* the assignment or issued after it.
C7_FlushedVisible ==
  /\ \A u \in Units :
       (ast[u].state = "flushed" /\ ast[u].clean)
         => mem[ast[u].target] = ast[u].val
  /\ rd.state = "read" => \A v \in rd.flushed : rd.val = v

\* C7 witness: a unit has assigned to a remote element and flushed, and
\* another unit has read the element since.
C7_Witness ==
  \E u \in Units :
    /\ ast[u].state = "flushed" /\ ast[u].clean
    /\ ast[u].target # u
    /\ rd.state = "read" /\ rd.reader # u
    /\ rd.target = ast[u].target
    /\ ast[u].val \in rd.flushed

\* C8, one assignment: an assignment to a remote element returns with the
\* put in flight and the element unchanged.
C8_AssignStep ==
  \A u, t \in Units :
    (t # u /\ Assign(u, t)) =>
      /\ mem' = mem
      /\ \E p \in inflight' : p.from = u /\ p.target = t /\ p.val = src[u]

\* C8: an assignment through a GlobAsyncRef to a remote element does not
\* by itself change the element, so a read issued after the assignment
\* returned and before a flush can return the old value.
C8_RemoteAssignNotApplied == [][C8_AssignStep]_vars

\* C8 witness: a read issued after a remote assignment of another value
\* returned, and before any flush, has returned the old value.
C8_Witness ==
  \E u \in Units :
    /\ ast[u].state = "assigned" /\ ast[u].target # u
    /\ rd.state = "read" /\ rd.target = ast[u].target
    /\ [from |-> u, val |-> ast[u].val] \in rd.pending
    /\ rd.val = ast[u].old /\ ast[u].val # ast[u].old

\* C9: a put in flight writes the value the source held at the call, and
\* after the flush the element holds that value, whatever the caller has
\* written to the source buffer since the call returned.
C9_SourceReusable ==
  /\ \A p \in inflight : WriteValue(p) = p.val
  /\ \A u \in Units :
       (/\ ast[u].state = "flushed" /\ ast[u].clean
        /\ src[u] # ast[u].val)
         => mem[ast[u].target] = ast[u].val

\* C9 witness: a unit assigned to a remote element, wrote another value to
\* its source buffer after the call returned, and flushed.
C9_Witness ==
  \E u \in Units :
    /\ ast[u].state = "flushed" /\ ast[u].clean
    /\ ast[u].target # u
    /\ src[u] # ast[u].val
    /\ mem[ast[u].target] = ast[u].val

\* C27, one call: an assignment to the caller's own element stores the
\* value in the caller's memory, changes no other memory and adds nothing
\* to the transport; an assignment to a remote element changes no memory
\* and adds exactly one put, to the referenced element; and a local read
\* after a local assignment, with no other write to the element, returns
\* the assigned value
C27_Step ==
  \A u \in Units :
    /\ Assign(u, u) =>
         /\ mem' = [mem EXCEPT ![u] = src[u]]
         /\ inflight' = inflight
    /\ \A t \in Units \ {u} :
         Assign(u, t) =>
           /\ mem' = mem
           /\ inflight \subseteq inflight'
           /\ \E p \in inflight' :
                /\ p.from = u /\ p.target = t /\ p.val = src[u]
                /\ inflight' \ inflight \subseteq {p}
    /\ (/\ Read(u, u)
        /\ ast[u].state = "assigned" /\ ast[u].target = u /\ ast[u].clean)
         => rd'.val = ast[u].val

\* C27: a GlobAsyncRef assignment to a local element stores the value
\* directly in the owner's local memory and issues no transport operation,
\* so the owning unit's next local read sees it without a flush; an
\* assignment to a remote element issues exactly one put on the global
\* pointer and changes no local memory of the caller.
C27_LocalAssignDirect == [][C27_Step]_vars

\* C27 witness: a unit has assigned a new value to its own element and has
\* read it back without a flush, and another unit's assignment to a remote
\* element is in flight
C27_Witness ==
  \E u \in Units :
    /\ ast[u].state = "assigned" /\ ast[u].target = u
    /\ ast[u].val # ast[u].old
    /\ rd.state = "read" /\ rd.reader = u /\ rd.target = u
    /\ rd.val = ast[u].val
    /\ \E w \in Units \ {u} :
         /\ ast[w].state = "assigned" /\ ast[w].target # w
         /\ \E p \in inflight : p.from = w

\* the puts of unit u in flight to the element of unit t
PutsFromTo(u, t) == { p \in inflight : p.from = u /\ p.target = t }

\* C28, one call: flush() on a reference to the element of unit t, remote
\* or the caller's own, calls dart_flush with the reference's global
\* pointer, after which none of the caller's puts to t is in flight;
\* flush() on a reference with a null global pointer calls nothing and
\* changes nothing
C28_Step ==
  \A u \in Units :
    /\ \A t \in Units :
         Flush(u, t) =>
           /\ FlushCalls(GlobAsyncRef(u, t)) = {GlobPtr(t)}
           /\ inflight' = inflight \ PutsFromTo(u, t)
           /\ PutsFromTo(u, t) # {} =>
                \E p \in PutsFromTo(u, t) : mem'[t] = WriteValue(p)
    /\ FlushNull(u) =>
         /\ \A local \in BOOLEAN : FlushCalls(GlobAsyncRef_null(local)) = {}
         /\ UNCHANGED <<mem, inflight, src, ast, rd>>

\* C28: GlobAsyncRef::flush() issues a transport flush on the reference's
\* global pointer whenever that pointer is non-null, also when the
\* referenced element is local, and issues no transport call and changes
\* no state when the global pointer is null.
C28_FlushUnlessNull == [][C28_Step]_vars

\* C28 witness: a unit has flushed its reference to its own element after
\* assigning to it, while a put of its own to a remote element stays in
\* flight
C28_Witness ==
  \E u \in Units :
    /\ ast[u].state = "flushed" /\ ast[u].target = u
    /\ \E p \in inflight : p.from = u /\ p.target # u

(* ------------------------------------------------------------------ *)
(* dash::Future<dash::GlobRef<T>>                                      *)
(* ------------------------------------------------------------------ *)

\* values of the element type
MemValues == {0, 1, 2}

\* what get() can hand to its caller
Returned(v) == [state |-> "value", val |-> v]

Crashed == [state |-> "crash"]

NotCalled == [state |-> "none"]

\* outcomes of dereferencing an overwritten pointer or of reading an
\* uninitialised value: any value, or the process is killed
Garbage == { Returned(v) : v \in MemValues } \cup {Crashed}

\* the value buffer of a future: as allocated by new value_t, and holding
\* a value
Uninitialised == [init |-> FALSE]

Holding(v) == [init |-> TRUE, val |-> v]

\* the unique_ptr _valptr: pointing to the value buffer, and with its
\* bytes overwritten by a value
ToBuffer == [to |-> "buf"]

Overwritten(v) == [raw |-> v]

\* line 343 / 356: the destination passed to dart_get_handle, the address
\* of the unique_ptr member itself
GetDest == "&_valptr"

\* Future(GlobRef&) and Future(GlobAsyncRef&), lines 339-360: the value
\* buffer is allocated uninitialised, the get is issued at once
FutureCtor(u, t, kind) ==
  /\ steps < MaxSteps
  /\ steps' = steps + 1
  /\ fut[u].state = "none"
  /\ fut' = [fut EXCEPT ![u] =
               [state     |-> "built",
                kind      |-> kind,
                target    |-> t,
                valptr    |-> ToBuffer,
                buf       |-> Uninitialised,
                dest      |-> GetDest,
                done      |-> FALSE,
                completed |-> FALSE,
                tested    |-> "none",
                waited    |-> "no",
                polls     |-> 0,
                waits     |-> 0,
                got       |-> NotCalled]]
  /\ UNCHANGED <<mem, inflight, src, ast, rd>>

\* the transport completes the get of a handle: the element's value is
\* written to the destination the constructor passed, whether or not the
\* future still exists
TransferComplete(u) ==
  /\ fut[u].state \in {"built", "destroyed"}
  /\ ~fut[u].done
  /\ LET f == fut[u]
         v == mem[f.target]
     IN  fut' = [fut EXCEPT ![u] =
                   IF f.dest = "&_valptr"
                   THEN [f EXCEPT !.done = TRUE, !.valptr = Overwritten(v)]
                   ELSE [f EXCEPT !.done = TRUE, !.buf = Holding(v)]]
  /\ UNCHANGED memVars

\* test() polling the transport on every call
TestPolls_always(f) == 1

\* lines 378-382: the calls of dart_test_local one test() makes
TestPolls(f) == IF ~f.completed THEN 1 ELSE 0

\* lines 391-394: the calls of dart_wait one wait() makes, and one get()
\* through wait() (lines 403-405)
WaitCalls(f) == IF ~f.completed THEN 1 ELSE 0

\* test(), lines 377-385; polls counts the calls of dart_test_local
Test(u) ==
  /\ steps < MaxSteps
  /\ steps' = steps + 1
  /\ fut[u].state = "built"
  /\ LET completed == IF ~fut[u].completed THEN fut[u].done ELSE TRUE
     IN  fut' = [fut EXCEPT ![u] =
                   [@ EXCEPT !.completed = completed,
                             !.polls = fut[u].polls + TestPolls(fut[u]),
                             !.tested = IF completed THEN "true" ELSE "false"]]
  /\ UNCHANGED <<mem, inflight, src, ast, rd>>

\* dart_wait(handle) returns once the transfer of the handle is complete
dart_wait(f) == f.done

\* wait() as it would be without the call of dart_wait
WaitReturns_unconditionally(f) == TRUE

\* lines 391-394: wait() returns at once on a completed future and after
\* dart_wait otherwise
WaitReturns(f) == f.completed \/ dart_wait(f)

\* wait(), lines 390-396; waited records the call that reached dart_wait,
\* waits counts the calls of dart_wait
Wait(u) ==
  /\ steps < MaxSteps
  /\ steps' = steps + 1
  /\ fut[u].state = "built"
  /\ WaitReturns(fut[u])
  /\ LET f == fut[u]
     IN  fut' = [fut EXCEPT ![u] =
                   [f EXCEPT !.completed = TRUE,
                             !.waits = f.waits + WaitCalls(f),
                             !.waited = IF f.completed THEN f.waited
                                        ELSE "wait"]]
  /\ UNCHANGED <<mem, inflight, src, ast, rd>>

\* the values *_valptr can yield
Deref(f) ==
  IF f.valptr = ToBuffer
  THEN (IF f.buf.init THEN {Returned(f.buf.val)} ELSE Garbage)
  ELSE Garbage

\* get(), lines 402-408: wait() on an incomplete future, then *_valptr
Get(u) ==
  /\ steps < MaxSteps
  /\ steps' = steps + 1
  /\ fut[u].state = "built"
  /\ WaitReturns(fut[u])
  /\ LET f == fut[u]
     IN  \E r \in Deref(f) :
           fut' = [fut EXCEPT ![u] =
                     [f EXCEPT !.completed = TRUE,
                               !.waits = f.waits + WaitCalls(f),
                               !.waited = IF f.completed THEN f.waited
                                          ELSE "get",
                               !.got = r]]
  /\ UNCHANGED <<mem, inflight, src, ast, rd>>

\* the end of the lifetime of a future. The class declares no destructor
\* (lines 321-409): the implicit one destroys the members and calls
\* nothing on _handle
Destroy(u) ==
  /\ steps < MaxSteps
  /\ steps' = steps + 1
  /\ fut[u].state = "built"
  /\ fut' = [fut EXCEPT ![u] = [@ EXCEPT !.state = "destroyed"]]
  /\ UNCHANGED <<mem, inflight, src, ast, rd>>

\* the state after a barrier: the elements hold their values, nothing is
\* in flight
InitFuture ==
  /\ mem = [t \in Units |-> 1 + (t % 2)]
  /\ inflight = {}
  /\ src = <<>> /\ ast = <<>> /\ rd = NoRead /\ steps = 0
  /\ fut = [u \in Units |-> NoFuture]
  /\ IdleAcc /\ IdleExt

NextFuture ==
  \/ \E u, t \in Units, kind \in {"GlobRef", "GlobAsyncRef"} :
       FutureCtor(u, t, kind) /\ UNCHANGED <<accVars, extVars>>
  \/ \E u \in Units : TransferComplete(u) /\ UNCHANGED <<accVars, extVars>>
  \/ \E u \in Units : Test(u) /\ UNCHANGED <<accVars, extVars>>
  \/ \E u \in Units : Wait(u) /\ UNCHANGED <<accVars, extVars>>
  \/ \E u \in Units : Get(u) /\ UNCHANGED <<accVars, extVars>>
  \/ \E u \in Units : Destroy(u) /\ UNCHANGED <<accVars, extVars>>

SpecFuture == InitFuture /\ [][NextFuture]_vars

(* ------------------------------------------------------------------ *)
(* Properties of dash::Future<dash::GlobRef<T>>                        *)
(* ------------------------------------------------------------------ *)

\* C10 (as claimed): get() on a future built after a barrier returns the
\* value stored in the referenced element, whichever unit owns it.
C10_GetReturnsElement ==
  \A u \in Units :
    (fut[u].state = "built" /\ fut[u].got # NotCalled)
      => fut[u].got = Returned(mem[fut[u].target])

\* C11, the state part: a future that wait() or get() has returned on, or
\* that is marked completed, or that test() has reported true for, has its
\* transfer complete; get() has returned only on a completed future; and
\* test() can always be called on a live future.
C11_CompletedImpliesDone ==
  \A u \in Units :
    fut[u].state # "none" =>
      /\ fut[u].completed => fut[u].done
      /\ fut[u].waited # "no" => fut[u].completed
      /\ fut[u].got # NotCalled => fut[u].completed
      /\ fut[u].tested = "true" => fut[u].completed
      /\ (fut[u].state = "built" /\ steps < MaxSteps) => ENABLED Test(u)

\* C11, one step: wait() and get() leave the future completed, and test()
\* returns true exactly if the future was completed or the transport
\* reports completion.
C11_CallStep ==
  \A u \in Units :
    /\ (Wait(u) \/ Get(u)) => (fut'[u].completed /\ fut[u].done)
    /\ Test(u) => (fut'[u].tested = "true"
                     <=> (fut[u].completed \/ fut[u].done))

\* C11: get() never returns before the transfer is complete: on an
\* incomplete future it waits first; after wait() or get() the future is
\* completed and test() returns true; test() never blocks and returns true
\* only if the transport reported completion or the future was completed.
C11_GetAfterComplete == []C11_CompletedImpliesDone /\ [][C11_CallStep]_vars

\* C11 witness: get() was called on a future not yet marked completed, it
\* waited and returned, and test() called afterwards returned true.
C11_Witness ==
  \E u \in Units :
    /\ fut[u].state = "built" /\ fut[u].waited = "get"
    /\ fut[u].got # NotCalled
    /\ fut[u].tested = "true"

\* C12 (as claimed): no handle obtained by a Future constructor is still
\* outstanding after the Future has been destroyed.
C12_NoHandleAfterDestroy ==
  \A u \in Units :
    fut[u].state = "destroyed" => (fut[u].completed \/ fut[u].done)

\* C26, one step: a completed future stays completed and no step calls
\* dart_test_local or dart_wait for it again; test() on a future not yet
\* completed calls dart_test_local once and dart_wait not at all
C26_Step ==
  \A u \in Units :
    /\ (fut[u].state # "none" /\ fut[u].completed) =>
         /\ fut'[u].completed
         /\ fut'[u].polls = fut[u].polls
         /\ fut'[u].waits = fut[u].waits
    /\ (Test(u) /\ ~fut[u].completed) =>
         /\ fut'[u].polls = fut[u].polls + 1
         /\ fut'[u].waits = fut[u].waits

\* C26: the completion flag of a Future is monotonic: once test(), wait()
\* or get() has observed completion it stays completed, and no later
\* test(), wait() or get() on that future issues another transport test or
\* wait on the handle; before completion each test() issues exactly one
\* transport poll.
C26_CompletionMonotonic == [][C26_Step]_vars

\* C26 witness: test() polled twice, the second poll observed completion,
\* and a get() called afterwards returned without a call of dart_wait
C26_Witness ==
  \E u \in Units :
    /\ fut[u].state = "built" /\ fut[u].completed
    /\ fut[u].polls = 2 /\ fut[u].waits = 0
    /\ fut[u].got # NotCalled

(* ------------------------------------------------------------------ *)
(* dash::GlobAsyncRef::member                                          *)
(* ------------------------------------------------------------------ *)

\* largest number of chained member() calls
MaxDepth == 3
\* largest byte offset of a member in its struct, and of an element in
\* its segment
MaxOffset == 2

Offsets == 0 .. MaxOffset

\* the memory segments of a unit
Segments == {0, 1}

\* a global pointer: unit, segment and byte offset in the segment
dart_gptr_t(t, s, a) == [unitid |-> t, segid |-> s, addr |-> a]

\* GlobPtr::is_local on unit u
is_local(u, gptr) == gptr.unitid = u

\* (T*)(gptr) on the owning unit: the native pointer to the location the
\* global pointer names
NativePtr(gptr) == gptr

\* GlobAsyncRef(dart_gptr_t), lines 126-135, on unit u
GlobAsyncRef_gptr(u, gptr) ==
  [gptr     |-> gptr,
   lptr     |-> IF is_local(u, gptr) THEN NativePtr(gptr) ELSE NullPtr,
   is_local |-> is_local(u, gptr)]

\* dart_gptr_incaddr: the pointer advanced by offs bytes
dart_gptr_incaddr(gptr, offs) == [gptr EXCEPT !.addr = @ + offs]

\* the local pointer of a member reference that keeps the parent's
MemberLptr_unshifted(parent, offset) ==
  IF parent.is_local THEN parent.lptr ELSE NullPtr

\* lines 97-99: the local pointer of the member reference
MemberLptr(parent, offset) ==
  IF parent.is_local
  THEN [parent.lptr EXCEPT !.addr = @ + offset]
  ELSE NullPtr

\* GlobAsyncRef(parent, offset), lines 90-105
GlobAsyncRef_member(parent, offset) ==
  [gptr     |-> dart_gptr_incaddr(parent.gptr, offset),
   lptr     |-> MemberLptr(parent, offset),
   is_local |-> parent.is_local]

\* member<MEMTYPE>(offs), lines 187-190; member(pointer-to-member), lines
\* 195-200, computes offs from the pointer to member and calls it
member(ref, offs) == GlobAsyncRef_member(ref, offs)

\* a unit calls member(offs) on the reference it holds
Member(offs) ==
  /\ Len(chain.offsets) < MaxDepth
  /\ gar' = member(gar, offs)
  /\ chain' = [chain EXCEPT !.offsets = Append(@, offs)]

\* a unit holds a reference to a struct element of some unit
InitMember ==
  /\ \E u, t \in Units, s \in Segments, a \in Offsets :
       /\ gar = GlobAsyncRef_gptr(u, dart_gptr_t(t, s, a))
       /\ chain = [unit |-> u, root |-> dart_gptr_t(t, s, a), offsets |-> <<>>]
  /\ IdleButMember

NextMember ==
  \E offs \in Offsets : Member(offs) /\ UNCHANGED frameMember

SpecMember == InitMember /\ [][NextMember]_vars

(* ------------------------------------------------------------------ *)
(* Properties of dash::GlobAsyncRef::member                            *)
(* ------------------------------------------------------------------ *)

RECURSIVE SumOf(_)
SumOf(seq) == IF seq = <<>> THEN 0 ELSE Head(seq) + SumOf(Tail(seq))

\* C13, one call: the reference member(offs) returns has the parent's
\* global pointer advanced by offs bytes in the same unit and segment, the
\* parent's locality flag, and the parent's local pointer plus offs when
\* local and a null local pointer otherwise.
C13_MemberStep ==
  \A offs \in Offsets :
    Member(offs) =>
      /\ gar'.gptr.unitid = gar.gptr.unitid
      /\ gar'.gptr.segid = gar.gptr.segid
      /\ gar'.gptr.addr = gar.gptr.addr + offs
      /\ gar'.is_local = gar.is_local
      /\ gar.is_local =>
           /\ gar'.lptr # NullPtr
           /\ gar'.lptr.unitid = gar.lptr.unitid
           /\ gar'.lptr.segid = gar.lptr.segid
           /\ gar'.lptr.addr = gar.lptr.addr + offs
      /\ ~gar.is_local => gar'.lptr = NullPtr

\* C13, any chain: the local pointer is non-null only if the reference is
\* local, a local reference's local and global pointer name the same
\* location, and the reference names the root's location advanced by the
\* sum of the offsets.
C13_ChainConsistent ==
  /\ gar.lptr # NullPtr => gar.is_local
  /\ gar.is_local <=> gar.gptr.unitid = chain.unit
  /\ gar.is_local => gar.lptr = NativePtr(gar.gptr)
  /\ gar.gptr = dart_gptr_t(chain.root.unitid, chain.root.segid,
                            chain.root.addr + SumOf(chain.offsets))

\* C13: member(offset) advances the global pointer by offset, keeps the
\* locality flag and advances the local pointer when local (null
\* otherwise); after any chain of member() calls the local pointer is
\* non-null only if the reference is local, and local and global pointer
\* name the same location.
C13_MemberRebinds == []C13_ChainConsistent /\ [][C13_MemberStep]_vars

\* C13 witness: a local reference reached by two member() calls with
\* non-zero offsets.
C13_Witness ==
  /\ Len(chain.offsets) >= 2
  /\ \A i \in 1 .. Len(chain.offsets) : chain.offsets[i] > 0
  /\ gar.is_local /\ gar.lptr # NullPtr

(* ------------------------------------------------------------------ *)
(* The pattern of a matrix distributed (NONE, BLOCKED) or              *)
(* (NONE, TILE(k)) over a team arranged 1 x nunits                     *)
(* ------------------------------------------------------------------ *)

BLOCKED == [kind |-> "BLOCKED"]

TILE(k) == [kind |-> "TILE", k |-> k]

\* ceil(a / b)
CeilDiv(a, b) == (a + b - 1) \div b

Max(S) == CHOOSE x \in S : \A y \in S : y <= x

Min(S) == CHOOSE x \in S : \A y \in S : x <= y

\* dash::Matrix<T, 2>(nrows, ncols, NONE, dist) on a team of nunits units
Matrix(nunits, nrows, ncols, dist) ==
  [nunits |-> nunits, nrows |-> nrows, ncols |-> ncols, dist |-> dist]

\* pattern.blocksize(1)
blocksize_cols(m) ==
  IF m.dist.kind = "BLOCKED" THEN CeilDiv(m.ncols, m.nunits) ELSE m.dist.k

\* pattern.unit_at({i, k}): rows are not split, the blocks of columns go
\* to the units in turn
unit_at(m, i, k) == (k \div blocksize_cols(m)) % m.nunits

\* the local column coordinate of global column k on its owner
local_col(m, k) ==
  ((k \div blocksize_cols(m)) \div m.nunits) * blocksize_cols(m)
    + (k % blocksize_cols(m))

\* the columns unit u owns
local_cols(m, u) == { k \in 0 .. (m.ncols - 1) : unit_at(m, 0, k) = u }

\* pattern.local_size(u), and matrix.local_size() on unit u
local_size(m, u) == m.nrows * Cardinality(local_cols(m, u))

(* ------------------------------------------------------------------ *)
(* Views: dash::sub and dash::local on a matrix                        *)
(* ------------------------------------------------------------------ *)

\* largest number of view operations composed on a matrix
MaxOps == 2

\* NViewTest.cc: block_rows of the two tests, and block_cols of both
BlockRows == {4, 5}

block_cols == 3

\* tile sizes of the column distribution
TileSizes == {2, block_cols}

\* the matrices: nunits * block_rows rows, nunits * block_cols columns
Matrices ==
  { Matrix(n, n * br, n * block_cols, dist) :
      n \in 1 .. NUnits, br \in BlockRows,
      dist \in {BLOCKED} \cup { TILE(k) : k \in TileSizes } }

\* the matrix of MatrixBlocked1DimLocalView, lines 58-72
IsTestMatrixBlocked(m) ==
  m = Matrix(m.nunits, m.nunits * 5, m.nunits * block_cols, BLOCKED)

\* a view: per-dimension extents and offsets; is_local after local();
\* ub if a sub with a range outside its domain led to it
MatrixView(m) ==
  [extents  |-> <<m.nrows, m.ncols>>,
   offsets  |-> <<0, 0>>,
   is_local |-> FALSE,
   ub       |-> FALSE]

\* the debug assertion on a sub range has failed
AssertFailed == [state |-> "assert"]

rank(V) == Len(V.extents)

\* the precondition of sub<d>(a, b, V)
InRange(d, a, b, V) == 0 <= a /\ a <= b /\ b <= V.extents[d + 1]

Narrowed(d, a, b, V) ==
  [V EXCEPT !.extents[d + 1] = b - a, !.offsets[d + 1] = @ + a]

\* sub<d>(a, b, V): dimension d narrowed to [a, b). A range outside the
\* domain fails the debug assertion, or is applied unchecked
sub(d, a, b, V) ==
  IF V = AssertFailed THEN {AssertFailed}
  ELSE IF InRange(d, a, b, V) THEN {Narrowed(d, a, b, V)}
  ELSE {AssertFailed, [Narrowed(d, a, b, V) EXCEPT !.ub = TRUE]}

\* lines 80-83 of NViewTest.cc
nview_rows_g_of_columns(mat) == sub(1, 1, 3, mat)

nview_rows_g(mat) == sub(0, 1, 3, mat)

nview_cols_g(mat) == sub(1, 2, 7, mat)

nview_cr_s_g(mat) == UNION { sub(1, 2, 7, v) : v \in nview_rows_g(mat) }

nview_rc_s_g(mat) == UNION { sub(0, 1, 3, v) : v \in nview_cols_g(mat) }

\* the view without elements
EmptyView(V) ==
  [V EXCEPT !.extents = <<0, 0>>, !.offsets = <<0, 0>>, !.is_local = TRUE]

\* V.local() on unit u: the part of V that unit u owns, as the bounding
\* box of its elements in the local coordinates of u
ViewLocal(u, V, m) ==
  LET cols == { k \in 0 .. (m.ncols - 1) :
                  /\ V.offsets[2] <= k /\ k < V.offsets[2] + V.extents[2]
                  /\ unit_at(m, 0, k) = u }
      lc   == { local_col(m, k) : k \in cols }
  IN  IF cols = {} \/ V.extents[1] = 0
      THEN EmptyView(V)
      ELSE [V EXCEPT !.extents = <<V.extents[1], Max(lc) - Min(lc) + 1>>,
                     !.offsets = <<V.offsets[1], Min(lc)>>,
                     !.is_local = TRUE]

\* dash::local(v) that returns every view as it is
local_identity(u, V, m) == V

\* dash::local(v), Local.h: a view of local elements (its iterator is a
\* pointer) is returned as it is (lines 24-34), any other view returns
\* v.local() (lines 57-78)
local(u, V, m) == IF V.is_local THEN V ELSE ViewLocal(u, V, m)

\* the ranges the view operations are called with
SubFrom == {0, 1, 2}

SubTo(V, d) ==
  {2, 3, 7} \cup (IF V = AssertFailed THEN {} ELSE {V.extents[d + 1]})

Sub(d, a, b) ==
  /\ Len(vops) < MaxOps
  /\ view # AssertFailed
  /\ \E r \in sub(d, a, b, view) : view' = r
  /\ vops' = Append(vops, [op |-> "sub", dim |-> d, a |-> a, b |-> b,
                           from |-> view])
  /\ UNCHANGED vmat

Local(u) ==
  /\ Len(vops) < MaxOps
  /\ view # AssertFailed
  /\ view' = local(u, view, vmat)
  /\ vops' = Append(vops, [op |-> "local", unit |-> u, from |-> view])
  /\ UNCHANGED vmat

InitView ==
  /\ vmat \in Matrices
  /\ view = MatrixView(vmat)
  /\ vops = <<>>
  /\ IdleButView

NextView ==
  \/ \E d \in {0, 1}, a \in SubFrom :
       \E b \in SubTo(view, d) :
         a <= b /\ Sub(d, a, b) /\ UNCHANGED frameView
  \/ \E u \in 0 .. (vmat.nunits - 1) : Local(u) /\ UNCHANGED frameView

SpecView == InitView /\ [][NextView]_vars

(* ------------------------------------------------------------------ *)
(* Properties of the views                                             *)
(* ------------------------------------------------------------------ *)

\* the operation applied last, and the one before it
LastOp == vops[Len(vops)]

FirstOp == vops[1]

IsView(V) == V # AssertFailed /\ ~V.ub

\* C14: for every view V and every range with 0 <= a <= b <= V.extent(d),
\* sub<d>(a, b, V) has extent b - a in dimension d, the extent of V in the
\* other dimension and the rank of V; sub<0>(1, 3, mat) of the test has
\* extent<0> == 2 and extent<1> == mat.extent(1).
C14_SubExtents ==
  /\ (/\ Len(vops) >= 1 /\ LastOp.op = "sub"
      /\ InRange(LastOp.dim, LastOp.a, LastOp.b, LastOp.from))
       => /\ IsView(view) = IsView(LastOp.from)
          /\ view.extents[LastOp.dim + 1] = LastOp.b - LastOp.a
          /\ view.extents[2 - LastOp.dim] = LastOp.from.extents[2 - LastOp.dim]
          /\ rank(view) = rank(LastOp.from)
  /\ \A r \in nview_rows_g(MatrixView(vmat)) :
       /\ IsView(r)
       /\ r.extents[1] = 2
       /\ r.extents[2] = vmat.ncols

\* C14 witness: a sub with a proper, non-empty range has been applied to a
\* view that was itself narrowed in the other dimension.
C14_Witness ==
  /\ Len(vops) = 2
  /\ FirstOp.op = "sub" /\ LastOp.op = "sub" /\ FirstOp.dim # LastOp.dim
  /\ IsView(view)
  /\ 0 < LastOp.a /\ LastOp.a < LastOp.b
  /\ LastOp.b < LastOp.from.extents[LastOp.dim + 1]

\* the state after two subs on different dimensions of the matrix
TwoSubs ==
  /\ Len(vops) = 2
  /\ FirstOp.op = "sub" /\ LastOp.op = "sub"
  /\ FirstOp.dim # LastOp.dim

\* the views of the same two subs applied in the other order
Commuted ==
  UNION { sub(FirstOp.dim, FirstOp.a, FirstOp.b, w) :
            w \in sub(LastOp.dim, LastOp.a, LastOp.b, FirstOp.from) }

\* the two subs are those of the test, on the matrix of the test
TestSubs ==
  /\ IsTestMatrixBlocked(vmat)
  /\ view \in nview_cr_s_g(MatrixView(vmat)) \cup nview_rc_s_g(MatrixView(vmat))
  /\ {[dim |-> FirstOp.dim, a |-> FirstOp.a, b |-> FirstOp.b],
      [dim |-> LastOp.dim, a |-> LastOp.a, b |-> LastOp.b]}
       = {[dim |-> 0, a |-> 1, b |-> 3], [dim |-> 1, a |-> 2, b |-> 7]}

\* C15 (as claimed): sub on two different dimensions commutes: both orders
\* yield views with equal extents() and equal offsets(), for ranges inside
\* the domain and for the ranges of the test, sub<0>(1,3) and sub<1>(2,7)
\* on a matrix of nunits*3 columns, with every team size.
C15_SubCommutes ==
  (/\ TwoSubs
   /\ \/ TestSubs
      \/ /\ InRange(FirstOp.dim, FirstOp.a, FirstOp.b, FirstOp.from)
         /\ InRange(LastOp.dim, LastOp.a, LastOp.b, FirstOp.from))
    => /\ IsView(view)
       /\ \A w \in Commuted :
            /\ IsView(w)
            /\ w.extents = view.extents
            /\ w.offsets = view.offsets

\* the hypothesis of C16 as claimed: columns divisible by nunits
ColumnsDivisible(m) == m.ncols % m.nunits = 0

\* one tile of columns for every unit, as in the test
OneTilePerUnit(m) ==
  m.dist.kind = "TILE" => m.ncols = m.nunits * m.dist.k

\* the state after local(sub<0>(0, nrows, mat)) on unit LastOp.unit
LocalOfAllRows ==
  /\ Len(vops) = 2
  /\ FirstOp = [op |-> "sub", dim |-> 0, a |-> 0, b |-> vmat.nrows,
                from |-> MatrixView(vmat)]
  /\ LastOp.op = "local"

\* C16 (as claimed): for a matrix distributed (NONE, TILE(block_cols)) or
\* (NONE, BLOCKED) over 1 x nunits units with columns divisible by nunits,
\* local(sub<0>(0, nrows, mat)) has rank 2 on every unit and the product of
\* its extents is mat.local_size() = nrows * ncols / nunits.
C16_LocalSizeAnyTile ==
  (LocalOfAllRows /\ ColumnsDivisible(vmat))
    => /\ rank(view) = 2
       /\ view.extents[1] * view.extents[2] = local_size(vmat, LastOp.unit)
       /\ local_size(vmat, LastOp.unit) * vmat.nunits
            = vmat.nrows * vmat.ncols

\* C16 (amended): the same for (NONE, BLOCKED) with columns divisible by
\* nunits and for (NONE, TILE(block_cols)) with ncols = nunits * block_cols.
C16_LocalSize ==
  (LocalOfAllRows /\ ColumnsDivisible(vmat) /\ OneTilePerUnit(vmat))
    => /\ rank(view) = 2
       /\ view.extents[1] * view.extents[2] = local_size(vmat, LastOp.unit)
       /\ local_size(vmat, LastOp.unit) * vmat.nunits
            = vmat.nrows * vmat.ncols

\* C16 witness: local(sub<0>(0, nrows, mat)) on a unit other than unit 0 of
\* a tiled matrix with one tile per unit.
C16_Witness ==
  /\ LocalOfAllRows /\ ColumnsDivisible(vmat) /\ OneTilePerUnit(vmat)
  /\ vmat.dist.kind = "TILE"
  /\ LastOp.unit # 0
  /\ view.extents[1] * view.extents[2] > 0

(* ------------------------------------------------------------------ *)
(* initialize_matrix (NViewTest.cc)                                    *)
(* ------------------------------------------------------------------ *)

\* largest number of rows of the initialised matrix
MaxRows == 2

\* the matrices initialised: one column per unit, or one more
InitMatrices ==
  { Matrix(NUnits, nr, nc, dist) :
      nr \in 1 .. MaxRows, nc \in {NUnits, NUnits + 1},
      dist \in {BLOCKED, TILE(1)} }

Coords(m) == (0 .. (m.nrows - 1)) \X (0 .. (m.ncols - 1))

\* an element's memory: as allocated, and holding a value
Unwritten == [init |-> FALSE]

Written(v) == [init |-> TRUE, val |-> v]

\* line 21: (i + 1) * 0.100 + (k + 1) * 0.001, in thousandths
InitialValue(i, k) == (i + 1) * 100 + (k + 1)

\* line 28: one unit id, in thousandths
UnitId(u) == u * 1000

\* the coordinates of the element at index n of the row-major loop of
\* lines 19-20
GlobalCoord(m, n) == <<n \div m.ncols, n % m.ncols>>

\* the coordinates of the element lbegin()[n] of unit u: the local
\* elements are stored row by row
LocalCoord(m, u, n) ==
  LET w == Cardinality(local_cols(m, u))
  IN  <<n \div w,
        CHOOSE k \in local_cols(m, u) : local_col(m, k) = n % w>>

\* the positions of a unit in initialize_matrix, in program order
Phases == <<"write", "barrier1", "update", "barrier2", "done">>

PhaseOf(p) == CHOOSE n \in 1 .. Len(Phases) : Phases[n] = p

\* initialize_matrix without its barriers
barrier_skipped(b) == TRUE

\* matrix.barrier(), lines 25 and 30: returns when every unit has entered
\* it and the writes issued before it have been applied
barrier(b) ==
  /\ \A v \in Units : PhaseOf(ipc[v]) >= PhaseOf(b)
  /\ puts = {}

\* x += d on an element
Add(x, d) == IF x.init THEN Written(x.val + d) ELSE Unwritten

\* lines 18-24, one iteration on unit 0: matrix[i][k] = value through a
\* GlobRef, a store if the element is local and a put otherwise
WriteElement ==
  /\ ipc[0] = "write"
  /\ idx[0] < matrix.nrows * matrix.ncols
  /\ LET c == GlobalCoord(matrix, idx[0])
         v == Written(InitialValue(c[1], c[2]))
     IN  IF unit_at(matrix, c[1], c[2]) = 0
         THEN elems' = [elems EXCEPT ![c] = v] /\ puts' = puts
         ELSE puts' = puts \cup {[coord |-> c, val |-> v]} /\ elems' = elems
  /\ idx' = [idx EXCEPT ![0] = @ + 1]
  /\ UNCHANGED <<matrix, ipc, seen>>

\* the transport applies a put
ApplyPut(p) ==
  /\ p \in puts
  /\ elems' = [elems EXCEPT ![p.coord] = p.val]
  /\ puts' = puts \ {p}
  /\ UNCHANGED <<matrix, ipc, idx, seen>>

\* a unit enters the barrier of line 25; units other than unit 0 skip
\* the loop of lines 18-24
EnterBarrier1(u) ==
  /\ ipc[u] = "write"
  /\ u = 0 => idx[0] = matrix.nrows * matrix.ncols
  /\ ipc' = [ipc EXCEPT ![u] = "barrier1"]
  /\ UNCHANGED <<matrix, elems, puts, idx, seen>>

LeaveBarrier1(u) ==
  /\ ipc[u] = "barrier1"
  /\ barrier("barrier1")
  /\ ipc' = [ipc EXCEPT ![u] = "update"]
  /\ idx' = [idx EXCEPT ![u] = 0]
  /\ UNCHANGED <<matrix, elems, puts, seen>>

\* lines 27-29, one iteration: matrix.lbegin()[i] += dash::myid()
UpdateElement(u) ==
  /\ ipc[u] = "update"
  /\ idx[u] < local_size(matrix, u)
  /\ LET c == LocalCoord(matrix, u, idx[u])
     IN  elems' = [elems EXCEPT ![c] = Add(@, UnitId(u))]
  /\ idx' = [idx EXCEPT ![u] = @ + 1]
  /\ UNCHANGED <<matrix, puts, ipc, seen>>

EnterBarrier2(u) ==
  /\ ipc[u] = "update"
  /\ idx[u] = local_size(matrix, u)
  /\ ipc' = [ipc EXCEPT ![u] = "barrier2"]
  /\ UNCHANGED <<matrix, elems, puts, idx, seen>>

LeaveBarrier2(u) ==
  /\ ipc[u] = "barrier2"
  /\ barrier("barrier2")
  /\ ipc' = [ipc EXCEPT ![u] = "done"]
  /\ UNCHANGED <<matrix, elems, puts, idx, seen>>

\* a unit reads matrix[i][k] after initialize_matrix has returned
ReadElement(u, c) ==
  /\ ipc[u] = "done"
  /\ seen' = [state |-> "read", reader |-> u, coord |-> c, val |-> elems[c]]
  /\ UNCHANGED <<matrix, elems, puts, ipc, idx>>

InitInitialize ==
  /\ matrix \in InitMatrices
  /\ elems = [c \in Coords(matrix) |-> Unwritten]
  /\ puts = {}
  /\ ipc = [u \in Units |-> "write"]
  /\ idx = [u \in Units |-> 0]
  /\ seen = NoRead
  /\ IdleButInit

NextInitialize ==
  \/ WriteElement /\ UNCHANGED frameInit
  \/ \E p \in puts : ApplyPut(p) /\ UNCHANGED frameInit
  \/ \E u \in Units : EnterBarrier1(u) /\ UNCHANGED frameInit
  \/ \E u \in Units : LeaveBarrier1(u) /\ UNCHANGED frameInit
  \/ \E u \in Units : UpdateElement(u) /\ UNCHANGED frameInit
  \/ \E u \in Units : EnterBarrier2(u) /\ UNCHANGED frameInit
  \/ \E u \in Units : LeaveBarrier2(u) /\ UNCHANGED frameInit
  \/ \E u \in Units, c \in Coords(matrix) :
       ReadElement(u, c) /\ UNCHANGED frameInit

SpecInitialize == InitInitialize /\ [][NextInitialize]_vars

(* ------------------------------------------------------------------ *)
(* Properties of initialize_matrix                                     *)
(* ------------------------------------------------------------------ *)

\* the value of element c after initialize_matrix
Expected(c) ==
  Written(InitialValue(c[1], c[2]) + UnitId(unit_at(matrix, c[1], c[2])))

\* C17: after the final barrier every unit reads for each element (i, k)
\* the value written by unit 0 plus the id of the owner of (i, k); no
\* local update is lost or applied to a not-yet-written element: during
\* the update phase of a unit its elements not yet updated hold the value
\* unit 0 wrote and those already updated hold that value plus its id.
C17_InitializeMatrix ==
  /\ seen.state = "read" => seen.val = Expected(seen.coord)
  /\ \A u \in Units :
       /\ ipc[u] = "done" => \A c \in Coords(matrix) : elems[c] = Expected(c)
       /\ ipc[u] \in {"update", "barrier2"} =>
            \A n \in 0 .. (local_size(matrix, u) - 1) :
              LET c == LocalCoord(matrix, u, n)
              IN  elems[c] = IF n < idx[u] THEN Expected(c)
                             ELSE Written(InitialValue(c[1], c[2]))

\* C17 witness: after the final barrier a unit has read an element that
\* unit 0 wrote remotely and that another unit than the reader updated.
C17_Witness ==
  /\ seen.state = "read"
  /\ unit_at(matrix, seen.coord[1], seen.coord[2]) \notin {0, seen.reader}
  /\ seen.val = Expected(seen.coord)
  /\ seen.val # Written(InitialValue(seen.coord[1], seen.coord[2]))

(* ------------------------------------------------------------------ *)
(* dash::SharedCounter                                                 *)
(* ------------------------------------------------------------------ *)

\* largest number of inc() and dec() calls of one unit
MaxCalls == 2

\* the arguments unit u calls inc() and dec() with
Increments(u) == {u + 1}

\* a counter that keeps its count in the slot of unit 0 on every unit
Slot_shared(u) == 0

\* a counter of which every unit writes its neighbour's slot
Slot_of_neighbour(u) == (u + 1) % NUnits

\* lines 27, 36, 45: _local_counts[_myid], the slot the unit writes
Slot(u) == u

\* x + y on two slots' contents
Plus(x, y) ==
  IF x.init /\ y.init THEN Written(x.val + y.val) ELSE Unwritten

\* get(), lines 57-60: acc after the first n iterations of the loop
RECURSIVE get_acc(_)
get_acc(n) ==
  IF n = 0 THEN Written(0)
  ELSE Plus(get_acc(n - 1), local_counts[n - 1])

\* SharedCounter(), lines 23-28
Construct(u) ==
  /\ cpc[u] = "ctor"
  /\ local_counts' = [local_counts EXCEPT ![Slot(u)] = Written(0)]
  /\ cpc' = [cpc EXCEPT ![u] = "run"]
  /\ UNCHANGED <<tmp, calls, net, counted>>

\* inc(increment), line 36: the slot is read and the sum computed
Inc(u, increment) ==
  /\ cpc[u] = "run"
  /\ calls[u] < MaxCalls
  /\ tmp' = [tmp EXCEPT ![u] = Add(local_counts[Slot(u)], increment)]
  /\ net' = [net EXCEPT ![u] = @ + increment]
  /\ calls' = [calls EXCEPT ![u] = @ + 1]
  /\ cpc' = [cpc EXCEPT ![u] = "store"]
  /\ UNCHANGED <<local_counts, counted>>

\* dec(increment), line 45: the slot is read and the difference computed
Dec(u, increment) ==
  /\ cpc[u] = "run"
  /\ calls[u] < MaxCalls
  /\ tmp' = [tmp EXCEPT ![u] = Add(local_counts[Slot(u)], 0 - increment)]
  /\ net' = [net EXCEPT ![u] = @ - increment]
  /\ calls' = [calls EXCEPT ![u] = @ + 1]
  /\ cpc' = [cpc EXCEPT ![u] = "store"]
  /\ UNCHANGED <<local_counts, counted>>

\* lines 36 and 45, the assignment of += and -=: the result is stored
Store(u) ==
  /\ cpc[u] = "store"
  /\ local_counts' = [local_counts EXCEPT ![Slot(u)] = tmp[u]]
  /\ tmp' = [tmp EXCEPT ![u] = Unwritten]
  /\ cpc' = [cpc EXCEPT ![u] = "run"]
  /\ UNCHANGED <<calls, net, counted>>

\* a unit that has finished its calls enters the team barrier
EnterBarrier(u) ==
  /\ cpc[u] = "run"
  /\ cpc' = [cpc EXCEPT ![u] = "barrier"]
  /\ UNCHANGED <<local_counts, tmp, calls, net, counted>>

\* the team barrier returns when every unit has entered it
LeaveBarrier(u) ==
  /\ cpc[u] = "barrier"
  /\ \A v \in Units : cpc[v] \in {"barrier", "after"}
  /\ cpc' = [cpc EXCEPT ![u] = "after"]
  /\ UNCHANGED <<local_counts, tmp, calls, net, counted>>

\* get(), lines 55-62, called after the barrier (line 51)
CounterGet(u) ==
  /\ cpc[u] = "after"
  /\ counted' = [state |-> "read", reader |-> u, val |-> get_acc(NUnits)]
  /\ UNCHANGED <<local_counts, cpc, tmp, calls, net>>

\* the array _local_counts is allocated, no unit has run its constructor
\* body
InitCounter ==
  /\ local_counts = [i \in Units |-> Unwritten]
  /\ cpc = [u \in Units |-> "ctor"]
  /\ tmp = [u \in Units |-> Unwritten]
  /\ calls = [u \in Units |-> 0]
  /\ net = [u \in Units |-> 0]
  /\ counted = NoRead
  /\ IdleButCounter

NextCounter ==
  \/ \E u \in Units : Construct(u) /\ UNCHANGED frameCounter
  \/ \E u \in Units :
       \E v \in Increments(u) : Inc(u, v) /\ UNCHANGED frameCounter
  \/ \E u \in Units :
       \E v \in Increments(u) : Dec(u, v) /\ UNCHANGED frameCounter
  \/ \E u \in Units : Store(u) /\ UNCHANGED frameCounter
  \/ \E u \in Units : EnterBarrier(u) /\ UNCHANGED frameCounter
  \/ \E u \in Units : LeaveBarrier(u) /\ UNCHANGED frameCounter
  \/ \E u \in Units : CounterGet(u) /\ UNCHANGED frameCounter

SpecCounter == InitCounter /\ [][NextCounter]_vars

(* ------------------------------------------------------------------ *)
(* Properties of dash::SharedCounter                                   *)
(* ------------------------------------------------------------------ *)

RECURSIVE NetOf(_)
NetOf(n) == IF n = 0 THEN 0 ELSE NetOf(n - 1) + net[n - 1]

\* C18: once every unit has finished its inc() and dec() calls and a
\* team barrier has passed, get() returns on every unit the sum of all
\* increments minus the sum of all decrements of all units: no call of
\* any unit is lost under any interleaving.
C18_CounterSum ==
  /\ counted.state = "read" => counted.val = Written(NetOf(NUnits))
  /\ (\E u \in Units : cpc[u] = "after")
       => \A v \in Units : local_counts[v] = Written(net[v])

\* C18 witness: after the barrier a unit has read the counter, and every
\* unit has made all its calls, which do not cancel.
C18_Witness ==
  /\ counted.state = "read"
  /\ \A u \in Units : calls[u] = MaxCalls /\ net[u] # 0
  /\ counted.val = Written(NetOf(NUnits))

\* C30, one step: inc() and dec() of unit u, from reading the slot to
\* storing the result, leave every slot but slot u unchanged; a slot is
\* changed only by a step of its own unit; get() changes no slot
C30_Step ==
  \A u \in Units :
    /\ ((\E v \in Increments(u) : Inc(u, v) \/ Dec(u, v)) \/ Store(u)) =>
         \A w \in Units \ {u} : local_counts'[w] = local_counts[w]
    /\ Store(u) => local_counts'[u] = tmp[u]
    /\ local_counts'[u] # local_counts[u] => (Construct(u) \/ Store(u))
    /\ CounterGet(u) => local_counts' = local_counts

\* C30: SharedCounter inc() and dec() called by unit u change only slot u
\* of the per-unit count array and leave every other unit's slot
\* unchanged, so each slot has a single writer; get() changes no slot.
C30_SingleWriter == [][C30_Step]_vars

\* C30 witness: two units have each stored a count that is not zero in
\* their own slots, one of them by a single call, and a unit has called
\* get()
C30_Witness ==
  /\ counted.state = "read"
  /\ \E u \in Units : calls[u] = 1 /\ net[u] < 0
  /\ \A u \in Units :
       net[u] # 0 /\ local_counts[Slot(u)] = Written(net[u])

(* ------------------------------------------------------------------ *)
(* dash::util::PatternMetrics                                          *)
(* ------------------------------------------------------------------ *)

\* largest number of columns of a measured pattern
MaxCols == 5

\* the patterns measured: rows not split, columns BLOCKED or in tiles
Patterns ==
  { Matrix(n, nr, nc, dist) :
      n \in 1 .. NUnits, nr \in 1 .. MaxRows, nc \in 1 .. MaxCols,
      dist \in {BLOCKED} \cup { TILE(k) : k \in {1} \cup TileSizes } }

\* pattern.blockspec().size(): one block of rows, the blocks of columns
blockspec_size(p) == CeilDiv(p.ncols, blocksize_cols(p))

\* pattern.block(bi).offset(0) and .offset(1)
block_offset(p, bi) == <<0, bi * blocksize_cols(p)>>

\* pattern.blocksize(0) * pattern.blocksize(1), line 113
block_size(p) == p.nrows * blocksize_cols(p)

\* the loop over the blocks counting a block once for each of its rows
RECURSIVE unit_blocks_per_row(_, _)
unit_blocks_per_row(p, n) ==
  IF n = 0 THEN [u \in 0 .. (p.nunits - 1) |-> 0]
  ELSE LET offs       == block_offset(p, n - 1)
           block_unit == unit_at(p, offs[1], offs[2])
       IN  [unit_blocks_per_row(p, n - 1) EXCEPT ![block_unit] = @ + p.nrows]

\* lines 101-111: _unit_blocks after the first n iterations of the loop
\* over the blocks
RECURSIVE unit_blocks(_, _)
unit_blocks(p, n) ==
  IF n = 0 THEN [u \in 0 .. (p.nunits - 1) |-> 0]
  ELSE LET offs       == block_offset(p, n - 1)
           block_unit == unit_at(p, offs[1], offs[2])
       IN  [unit_blocks(p, n - 1) EXCEPT ![block_unit] = @ + 1]

\* std::count(first, last, value) on _unit_blocks
Count(blocks, value) ==
  Cardinality({ u \in DOMAIN blocks : blocks[u] = value })

\* the values of a float: a quotient in lowest terms, infinity, not a
\* number
RECURSIVE Gcd(_, _)
Gcd(a, b) == IF b = 0 THEN a ELSE Gcd(b, a % b)

Inf == [float |-> "inf"]

NaN == [float |-> "nan"]

Quotient(n, d) == [num |-> n \div Gcd(n, d), den |-> d \div Gcd(n, d)]

\* static_cast<float>(n) / static_cast<float>(d), lines 129-130, for
\* non-negative n and d
FloatDiv(n, d) ==
  IF d # 0 THEN Quotient(n, d)
  ELSE IF n = 0 THEN NaN ELSE Inf

\* _num_imb_units as the plain count of the units with _max_blocks
num_imb_units_counted(blocks, min_blocks, max_blocks) ==
  Count(blocks, max_blocks)

\* lines 121-125
num_imb_units(blocks, min_blocks, max_blocks) ==
  IF min_blocks = max_blocks THEN 0 ELSE Count(blocks, max_blocks)

\* init_metrics(pattern), lines 94-131
init_metrics(p) ==
  LET num_blocks == blockspec_size(p)
      blocks     == unit_blocks(p, num_blocks)
      counts     == { blocks[u] : u \in DOMAIN blocks }
      min_blocks == Min(counts)
      max_blocks == Max(counts)
      min_elements == min_blocks * block_size(p)
      max_elements == max_blocks * block_size(p)
  IN  [_unit_blocks   |-> blocks,
       _num_blocks    |-> num_blocks,
       _block_size    |-> block_size(p),
       _min_blocks    |-> min_blocks,
       _max_blocks    |-> max_blocks,
       _num_bal_units |-> Count(blocks, min_blocks),
       _num_imb_units |-> num_imb_units(blocks, min_blocks, max_blocks),
       _imb_factor    |-> FloatDiv(max_elements, min_elements)]

\* the accessors, lines 28-88
num_blocks(m) == m._num_blocks

imbalance_factor(m) == m._imb_factor

min_blocks_per_unit(m) == m._min_blocks

min_elements_per_unit(m) == m._min_blocks * m._block_size

max_blocks_per_unit(m) == m._max_blocks

max_elements_per_unit(m) == m._max_blocks * m._block_size

num_balanced_units(m) == m._num_bal_units

num_imbalanced_units(m) == m._num_imb_units

unit_local_blocks(m, unit) == m._unit_blocks[unit]

NoMetrics == [state |-> "none"]

\* PatternMetrics(pattern), lines 23-26
PatternMetrics ==
  /\ metrics = NoMetrics
  /\ metrics' = init_metrics(pattern)
  /\ UNCHANGED pattern

InitMetrics ==
  /\ pattern \in Patterns
  /\ metrics = NoMetrics
  /\ IdleButMetrics

NextMetrics == PatternMetrics /\ UNCHANGED frameMetrics

SpecMetrics == InitMetrics /\ [][NextMetrics]_vars

(* ------------------------------------------------------------------ *)
(* Properties of dash::util::PatternMetrics                            *)
(* ------------------------------------------------------------------ *)

PatternUnits == 0 .. (pattern.nunits - 1)

\* the numbers of elements the pattern maps to the units
LocalSizes == { local_size(pattern, u) : u \in PatternUnits }

\* C19 (as claimed): min_elements_per_unit() and max_elements_per_unit()
\* are the minimum and maximum over the units of pattern.local_size(u),
\* also with underfilled trailing blocks; imbalance_factor() is max/min and
\* is 1 exactly when every unit has the same number of elements.
C19_ElementsPerUnit ==
  metrics # NoMetrics =>
    /\ min_elements_per_unit(metrics) = Min(LocalSizes)
    /\ max_elements_per_unit(metrics) = Max(LocalSizes)
    /\ imbalance_factor(metrics) = FloatDiv(Max(LocalSizes), Min(LocalSizes))
    /\ imbalance_factor(metrics) = Quotient(1, 1)
         <=> Cardinality(LocalSizes) = 1

NONE == [kind |-> "NONE"]

CYCLIC == [kind |-> "CYCLIC"]

BLOCKCYCLIC(k) == [kind |-> "BLOCKCYCLIC", k |-> k]

\* the distributions of one dimension
Distributions == {NONE, BLOCKED, CYCLIC, TILE(2), BLOCKCYCLIC(2)}

\* a pattern of two dimensions: the global extents, the distribution of
\* each dimension and the team's arrangement as a grid
Pattern(extents, dists, team) ==
  [extents |-> extents, dists |-> dists, team |-> team]

\* the patterns mapped: dimension d is 1 or 2
MappedPatterns ==
  { Pattern(<<e0, e1>>, <<d0, d1>>, <<u0, u1>>) :
      e0 \in 1 .. MaxRows, e1 \in 1 .. MaxCols,
      d0 \in Distributions, d1 \in Distributions,
      u0 \in 1 .. NUnits, u1 \in 1 .. NUnits }

\* the global coordinates in bounds
PatternCoords(p) ==
  (0 .. (p.extents[1] - 1)) \X (0 .. (p.extents[2] - 1))

\* the units of the team, numbered row by row over the grid
PatternTeam(p) == 0 .. (p.team[1] * p.team[2] - 1)

\* the coordinate of unit u in dimension d of the team's grid
team_coord(p, d, u) == IF d = 1 THEN u \div p.team[2] ELSE u % p.team[2]

\* the unit at grid coordinates c
team_unit(p, c) == c[1] * p.team[2] + c[2]

\* blocksize(d): the extent of a full block in dimension d; CYCLIC is
\* BLOCKCYCLIC(1), NONE is one block of the whole extent
blocksize(p, d) ==
  CASE p.dists[d].kind = "NONE"    -> p.extents[d]
    [] p.dists[d].kind = "BLOCKED" -> CeilDiv(p.extents[d], p.team[d])
    [] p.dists[d].kind = "CYCLIC"  -> 1
    [] OTHER                       -> p.dists[d].k

\* block_index = i / k
block_index(p, d, i) == i \div blocksize(p, d)

\* block_coord = block_index mod U; 0 for NONE, i / ceil(E / U) for BLOCKED
block_coord(p, d, i) ==
  CASE p.dists[d].kind = "NONE"    -> 0
    [] p.dists[d].kind = "BLOCKED" -> block_index(p, d, i)
    [] OTHER                       -> block_index(p, d, i) % p.team[d]

\* in_block = i mod k
in_block(p, d, i) == i % blocksize(p, d)

\* the cycle number block_index / U: 0 for NONE and BLOCKED
cycle(p, d, i) ==
  IF p.dists[d].kind \in {"NONE", "BLOCKED"} THEN 0
  ELSE block_index(p, d, i) \div p.team[d]

\* blockspec(): the number of blocks in dimension d
blockspec(p, d) == CeilDiv(p.extents[d], blocksize(p, d))

\* the number of blocks of dimension d at grid coordinate c
local_blocks(p, d, c) ==
  IF p.dists[d].kind \in {"NONE", "BLOCKED"}
  THEN IF c < blockspec(p, d) THEN 1 ELSE 0
  ELSE (blockspec(p, d) \div p.team[d])
         + (IF c < blockspec(p, d) % p.team[d] THEN 1 ELSE 0)

\* the elements the last block of dimension d is short of a full block
underfilled(p, d) == blockspec(p, d) * blocksize(p, d) - p.extents[d]

\* a local extent that takes every block for a full block
local_extent_full_blocks(p, d, c) ==
  local_blocks(p, d, c) * blocksize(p, d)

\* local_extents(unit)[d]: the blocks at grid coordinate c, the last block
\* of the dimension trailing unequal
local_extent(p, d, c) ==
  local_blocks(p, d, c) * blocksize(p, d)
    - (IF c = block_coord(p, d, p.extents[d] - 1)
       THEN underfilled(p, d) ELSE 0)

\* local_size(unit): the product of the unit's local extents
pattern_local_size(p, u) ==
  local_extent(p, 1, team_coord(p, 1, u))
    * local_extent(p, 2, team_coord(p, 2, u))

\* unit_at(coords)
pattern_unit_at(p, c) ==
  team_unit(p, <<block_coord(p, 1, c[1]), block_coord(p, 2, c[2])>>)

\* a local coordinate that leaves the cycle number out
local_coord_in_block(p, d, i) == in_block(p, d, i)

\* the per-unit coordinate of global coordinate i in dimension d: the
\* cycle number and in_block combined
local_coord(p, d, i) ==
  cycle(p, d, i) * blocksize(p, d) + in_block(p, d, i)

\* local_at(coords): the per-unit coordinates linearised by the unit's
\* local extents
local_at(p, c) ==
  local_coord(p, 1, c[1])
      * local_extent(p, 2, block_coord(p, 2, c[2]))
    + local_coord(p, 2, c[2])

\* the global coordinate of local coordinate l at grid coordinate c
global_coord(p, d, c, l) ==
  ((l \div blocksize(p, d)) * p.team[d] + c) * blocksize(p, d)
    + (l % blocksize(p, d))

\* global_at(unit, local_offset)
global_at(p, u, offs) ==
  LET ext2 == local_extent(p, 2, team_coord(p, 2, u))
  IN  <<global_coord(p, 1, team_coord(p, 1, u), offs \div ext2),
        global_coord(p, 2, team_coord(p, 2, u), offs % ext2)>>

NotMapped == [state |-> "none"]

\* a unit maps a global coordinate and maps the result back
MapCoord(c) ==
  /\ c \in PatternCoords(pat)
  /\ mapped' = [state  |-> "mapped", coord |-> c,
                unit   |-> pattern_unit_at(pat, c),
                offset |-> local_at(pat, c),
                back   |-> global_at(pat, pattern_unit_at(pat, c),
                                     local_at(pat, c))]
  /\ UNCHANGED <<pat, framePattern>>

\* a unit asks every unit's local_size
LocalSizeOfUnits ==
  /\ mapped' = [state |-> "sizes",
                sizes |-> [u \in PatternTeam(pat) |->
                             pattern_local_size(pat, u)]]
  /\ UNCHANGED <<pat, framePattern>>

InitPattern ==
  /\ pat \in MappedPatterns
  /\ mapped = NotMapped
  /\ IdleButPattern

NextPattern ==
  \/ \E i \in 0 .. (MaxRows - 1), k \in 0 .. (MaxCols - 1) : MapCoord(<<i, k>>)
  \/ LocalSizeOfUnits

SpecPattern == InitPattern /\ [][NextPattern]_vars

\* the sum of sizes[0 .. n - 1]
RECURSIVE SumTo(_, _)
SumTo(sizes, n) == IF n = 0 THEN 0 ELSE SumTo(sizes, n - 1) + sizes[n - 1]

\* C21: for every pattern built from NONE, BLOCKED, TILE(k), BLOCKCYCLIC(k)
\* and CYCLIC per dimension and every global coordinate c in bounds,
\* global_at(unit_at(c), local_at(c)) = c, the local offset lies inside the
\* unit's local storage, and no other coordinate in bounds maps to the same
\* (unit, local offset); also when the extents are not divisible by the
\* block size
C21_MappingInjective ==
  mapped.state = "mapped" =>
    /\ mapped.back = mapped.coord
    /\ mapped.offset < pattern_local_size(pat, mapped.unit)
    /\ \A c \in PatternCoords(pat) :
         (pattern_unit_at(pat, c) = mapped.unit
            /\ local_at(pat, c) = mapped.offset) => c = mapped.coord

\* C21 happens: a coordinate of a trailing short block, in a later cycle of
\* a pattern whose columns the blocks do not divide, is mapped
C21_Witness ==
  /\ mapped.state = "mapped"
  /\ underfilled(pat, 2) > 0
  /\ pat.dists[2].kind \in {"TILE", "BLOCKCYCLIC"}
  /\ pat.team[2] > 1
  /\ cycle(pat, 2, mapped.coord[2]) > 0
  /\ block_index(pat, 2, mapped.coord[2]) = blockspec(pat, 2) - 1
  /\ mapped.coord[1] > 0

\* C22: for every pattern the sum over all units u of local_size(u) is the
\* product of the global extents, also when units have an empty local range
C22_LocalSizesSum ==
  mapped.state = "sizes" =>
    SumTo(mapped.sizes, pat.team[1] * pat.team[2])
      = pat.extents[1] * pat.extents[2]

\* C22 happens: the sizes are asked of a pattern with a short trailing
\* block in which one unit has an empty local range and another has not
C22_Witness ==
  /\ mapped.state = "sizes"
  /\ underfilled(pat, 2) > 0
  /\ \E u \in PatternTeam(pat) : mapped.sizes[u] = 0
  /\ \E u \in PatternTeam(pat) : mapped.sizes[u] > 1

(* ------------------------------------------------------------------ *)
(* The distarray program (spec/test/distarray.c)                       *)
(* ------------------------------------------------------------------ *)

\* number of units that run the program
NProcs == 4

ITEMS_PER_UNIT == 5

\* the unit that puts a value into the first element of the allocation
PutUnit == 1

\* the value it puts
PutValue == 42

\* the unit that prints the whole array
PrintUnit == 3

Procs == 0 .. (NProcs - 1)

\* where a unit stands in main()
At(at, i) == [at |-> at, i |-> i]

\* lines 34-39: dart_put_blocking(gptr, &i, sizeof(int)) with gptr at the
\* beginning of the allocation, the first element of unit 0; the put is
\* complete when the call returns
PutBlocking(u) ==
  /\ dpc[u].at = "put"
  /\ darray' = [darray EXCEPT ![0][1] = Written(PutValue)]
  /\ dpc' = [dpc EXCEPT ![u] = At("init", 0)]
  /\ UNCHANGED <<dval, frameDistarray>>

\* lines 47-49: localaddr[i] = myid + i, one element per step
InitElement(u) ==
  /\ dpc[u].at = "init"
  /\ dpc[u].i < ITEMS_PER_UNIT
  /\ darray' = [darray EXCEPT ![u][dpc[u].i + 1] = Written(u + dpc[u].i)]
  /\ dpc' = [dpc EXCEPT ![u] = At("init", dpc[u].i + 1)]
  /\ UNCHANGED <<dval, frameDistarray>>

\* line 51: the unit enters dart_barrier(DART_TEAM_ALL)
ArriveBarrier(u) ==
  /\ dpc[u].at = "init"
  /\ dpc[u].i = ITEMS_PER_UNIT
  /\ dpc' = [dpc EXCEPT ![u] = At("barrier", 0)]
  /\ UNCHANGED <<darray, dval, frameDistarray>>

\* the units that have entered the barrier
Arrived == { u \in Procs : dpc[u].at \notin {"put", "init"} }

\* line 51: the barrier returns once every unit has entered it; unit 3
\* goes on to print, the others to dart_exit()
PassBarrier(u) ==
  /\ dpc[u].at = "barrier"
  /\ Arrived = Procs
  /\ dpc' = [dpc EXCEPT ![u] = IF u = PrintUnit THEN At("print", 0)
                               ELSE At("exit", 0)]
  /\ UNCHANGED <<darray, dval, frameDistarray>>

\* lines 56-70: the printing unit fetches element i from unit
\* i / ITEMS_PER_UNIT at offset i % ITEMS_PER_UNIT with dart_get_blocking.
\* Line 65 hands dart_gptr_getaddr an uninitialised pointer to write the
\* address to: the unit goes on or stops there.
GetElement(u) ==
  /\ dpc[u].at = "print"
  /\ dpc[u].i < ITEMS_PER_UNIT * NProcs
  /\ \/ /\ dval' = [state |-> "read", index |-> dpc[u].i,
                    val   |-> darray[dpc[u].i \div ITEMS_PER_UNIT]
                                    [(dpc[u].i % ITEMS_PER_UNIT) + 1]]
        /\ dpc' = [dpc EXCEPT ![u] = At("print", dpc[u].i + 1)]
     \/ /\ dpc' = [dpc EXCEPT ![u] = At("crashed", dpc[u].i)]
        /\ UNCHANGED dval
  /\ UNCHANGED <<darray, frameDistarray>>

\* line 73: the printing unit is done
Exit(u) ==
  /\ dpc[u].at = "print"
  /\ dpc[u].i = ITEMS_PER_UNIT * NProcs
  /\ dpc' = [dpc EXCEPT ![u] = At("exit", 0)]
  /\ UNCHANGED <<darray, dval, frameDistarray>>

\* after dart_team_memalloc_aligned (lines 24-25): ITEMS_PER_UNIT
\* integers per unit, not initialised; unit 1 is about to put, the other
\* units are about to initialise their portion
InitDistarray ==
  /\ darray = [u \in Procs |-> [i \in 1 .. ITEMS_PER_UNIT |-> Unwritten]]
  /\ dpc = [u \in Procs |-> IF u = PutUnit THEN At("put", 0)
                            ELSE At("init", 0)]
  /\ dval = NoRead
  /\ IdleButDistarray

NextDistarray ==
  \E u \in Procs :
    \/ PutBlocking(u)
    \/ InitElement(u)
    \/ ArriveBarrier(u)
    \/ PassBarrier(u)
    \/ GetElement(u)
    \/ Exit(u)

SpecDistarray == InitDistarray /\ [][NextDistarray]_vars

\* every unit has left the barrier
AfterBarrier == \A u \in Procs : dpc[u].at \in {"print", "exit", "crashed"}

\* C23: after the barrier the global array holds at global index i the
\* value (i / ITEMS_PER_UNIT) + (i % ITEMS_PER_UNIT) its owner wrote, for
\* every interleaving of unit 1's put of 42 into element 0 of unit 0 with
\* unit 0's initialisation of that element
C23_OwnerComputes ==
  AfterBarrier =>
    \A i \in 0 .. (ITEMS_PER_UNIT * NProcs - 1) :
      darray[i \div ITEMS_PER_UNIT][(i % ITEMS_PER_UNIT) + 1]
        = Written((i \div ITEMS_PER_UNIT) + (i % ITEMS_PER_UNIT))

(* ------------------------------------------------------------------ *)
(* Properties of the block counts of PatternMetrics                    *)
(* ------------------------------------------------------------------ *)

\* the blocks of the pattern whose first element unit u owns
BlocksOwnedBy(u) ==
  { bi \in 0 .. (blockspec_size(pattern) - 1) :
      unit_at(pattern, block_offset(pattern, bi)[1],
              block_offset(pattern, bi)[2]) = u }

\* C29: PatternMetrics counts every block of the pattern exactly once, for
\* the unit that owns the block's first element: the sum over all units of
\* unit_local_blocks(u) equals num_blocks(), and min_blocks_per_unit() <=
\* unit_local_blocks(u) <= max_blocks_per_unit() for every unit u.
C29_BlocksCountedOnce ==
  metrics # NoMetrics =>
    /\ \A u \in PatternUnits :
         /\ unit_local_blocks(metrics, u) = Cardinality(BlocksOwnedBy(u))
         /\ min_blocks_per_unit(metrics) <= unit_local_blocks(metrics, u)
         /\ unit_local_blocks(metrics, u) <= max_blocks_per_unit(metrics)
    /\ SumTo([u \in PatternUnits |-> unit_local_blocks(metrics, u)],
             pattern.nunits) = num_blocks(metrics)

\* C29 witness: the metrics of a pattern of more than one row in which one
\* unit has more blocks than another and no unit is without a block
C29_Witness ==
  /\ metrics # NoMetrics
  /\ pattern.nunits > 1 /\ pattern.nrows > 1
  /\ num_blocks(metrics) > pattern.nunits
  /\ 0 < min_blocks_per_unit(metrics)
  /\ min_blocks_per_unit(metrics) < max_blocks_per_unit(metrics)

====
